---------------------------- MODULE Spec2Model ----------------------------
(***************************************************************************)
(* Model of the signal-driven backtest and execution engine of             *)
(* enigentgrp/platform:                                                    *)
(*   - utils/helpers.py        calculate_lifo_pnl  (LIFO accountant)       *)
(*   - backtest_options.py     Backtester, occ_symbol, expiry rule         *)
(*   - scripts/trading_engine.py  live expiry rule and contract selection  *)
(*                                                                         *)
(* Money is in whole dollars, share quantities in 1/QTY_SCALE shares and   *)
(* strikes in 1/1000 dollar (the unit of the identifier's strike field).   *)
(* Dates are proleptic Gregorian ordinals (datetime.date.toordinal()).     *)
(***************************************************************************)
EXTENDS Integers, Sequences, FiniteSets, TLC

VARIABLES
    \* ---- calculate_lifo_pnl (utils/helpers.py) ----
    transactions,   \* the TransactionLog objects handed to the function
    current_price,  \* the mark price handed to the function
    lifo_given,     \* the transactions as they were when the last call started
    lifo_ret,       \* the dict returned by the last call (None before any)
    lifo_locals,    \* locals of the last call: per-sell cost basis, leftovers
    lifo_calls,     \* number of calls made so far
    db_cost,        \* get_lifo_cost_basis: [quantity, cost_basis] of its call (None before)
    \* ---- expiry rule (backtest_options.py, scripts/trading_engine.py) ----
    exp_d,          \* the decision date handed to both expiry functions
    exp_bt,         \* result of next_friday_after_t_plus_2 (0: not called yet)
    exp_live,       \* result of next_friday_after_tomorrow (0: not called yet)
    \* ---- occ_symbol (backtest_options.py) ----
    occ_ref,        \* two contract refs [under, expiry, cp, strike]
    occ_id,         \* their identifiers, <<>> while not encoded
    \* ---- option market data (OptionsProvider) ----
    options_csv,    \* data/options/options.csv: rows [date, occ, open, close, volume]
    \* ---- contract selection (pick_occ, pick_option_contract) ----
    pick_in,        \* the arguments [day, last_px, cp]
    pick_bt,        \* [called, occ]: result of Backtester.pick_occ
    pick_live,      \* [called, occ]: result of pick_option_contract
    \* ---- Backtester (backtest_options.py) ----
    df,             \* self.df: the loaded daily bars [date, open, close], by date
    df_sector,      \* self.df_sector: the sector ETF's closes (<<>>: no confirmation)
    cash,           \* self.cash
    pos,            \* self.pos: [qty_stock, options, last_prices]
    ledger,         \* self.ledger: the Trade rows
    equity_series,  \* self.equity_series: <<date, equity>> pairs
    price_window,   \* run()'s price_window
    loop_i,         \* run()'s loop index i (1-based row of the bars in [start, end])
    pc,             \* "loop": in the bar loop of run(); "done": run() returned
    \* ---- scripts/trading_engine.py ----
    acct,           \* the broker account: [cash, stocks, plain, cp, options]
    orders,         \* the orders submitted to the broker, in order
    price_windows,  \* price_windows: one deque of prices per symbol
    cyc,            \* main()'s locals of the current polling cycle
    daily,          \* the day's inputs [trend, closes, nsyms], the same at every poll
    lpc,            \* "poll": at the top of the while loop; "syms": in the for loop
    \* ---- services/trading_engine.py TradingEngine ----
    is_running,     \* self.is_running
    trading_thread, \* self.trading_thread: index of the last thread started (0: none)
    threads,        \* the loop threads started so far: [at, cycles]
    ui,             \* the caller of start_trading / stop_trading: [at, calls]
    \* ---- trading_engine.py (long-only engine) ----
    lo_acct,        \* the broker account: [cash, qty, others]
    lo_orders,      \* the orders submitted to the broker, in order
    window,         \* window: the deque of prices of the watched symbol
    lo_cyc,         \* the last cycle of main(): [n, eod, px, failed]
    running,        \* the flag handle_sigint clears
    lo_pc,          \* "loop": in the while loop of main(); "stopped": main() returned
    clients,        \* how many times trade and data_client were constructed
    \* ---- the price windows and trend flags of both engines ----
    seen,           \* the observations fed so far, oldest first (0: no price)
    consec,         \* K: self.consec, evars["CONSECUTIVE_PERIODS"]
    bt_win,         \* Backtester.run's price_window after them
    live_win,       \* the symbol's deque of price_windows after them
    flags,          \* [bt, live]: the [rising, falling] flags computed last
    wpc             \* "feed": observations arrive

lifovars == <<transactions, current_price, lifo_given, lifo_ret, lifo_locals, lifo_calls,
              db_cost>>

expvars == <<exp_d, exp_bt, exp_live>>

occvars == <<occ_ref, occ_id>>

pickvars == <<pick_in, pick_bt, pick_live>>

btvars == <<df, df_sector, cash, pos, ledger, equity_series, price_window, loop_i, pc>>

livevars == <<acct, orders, price_windows, cyc, daily, lpc>>

thrvars == <<is_running, trading_thread, threads, ui>>

longvars == <<lo_acct, lo_orders, window, lo_cyc, running, lo_pc, clients>>

winvars == <<seen, consec, bt_win, live_win, flags, wpc>>
vars == <<lifovars, expvars, occvars, options_csv, pickvars, btvars, livevars, thrvars, longvars, winvars>>

\* Python's None where a record is expected.
None == [none |-> TRUE]

Max(a, b) == IF a >= b THEN a ELSE b
Min(a, b) == IF a <= b THEN a ELSE b
Abs(a) == IF a >= 0 THEN a ELSE 0 - a

RECURSIVE SumSeq(_)
SumSeq(s) == IF s = <<>> THEN 0 ELSE Head(s) + SumSeq(Tail(s))

(***************************************************************************)
(*                    utils/helpers.py  calculate_lifo_pnl                 *)
(***************************************************************************)
MaxFills == 3
MaxQty == 2
MaxCalls == 2
LotPrices == {10, 20}
MarkPrices == {5, 30}

\* A fill as calculate_lifo_pnl reads it: side, quantity, price, transaction_date.
Fill(sd, q, p, d) == [side |-> sd, quantity |-> q, price |-> p, transaction_date |-> d]

FillShapes == {"buy", "sell"} \X (1..MaxQty) \X LotPrices

\* Fill histories of length n, listed chronologically (transaction_date = position).
Histories(n) ==
    { [i \in 1..n |-> Fill(f[i][1], f[i][2], f[i][3], i)] : f \in [1..n -> FillShapes] }

\* list.sort(key=transaction_date [, reverse=True]) over object indices: a stable
\* insertion sort, as Python's sort is stable also under reverse=True.
RECURSIVE InsertByDate(_, _, _, _)
InsertByDate(tx, sorted, i, reverse) ==
    IF sorted = <<>> THEN <<i>>
    ELSE LET h == Head(sorted)
             before == IF reverse
                       THEN tx[i].transaction_date > tx[h].transaction_date
                       ELSE tx[i].transaction_date < tx[h].transaction_date
         IN  IF before THEN <<i>> \o sorted
             ELSE <<h>> \o InsertByDate(tx, Tail(sorted), i, reverse)

RECURSIVE SortByDate(_, _, _)
SortByDate(tx, idxs, reverse) ==
    IF idxs = <<>> THEN <<>>
    ELSE LET n == Len(idxs)
         IN  InsertByDate(tx, SortByDate(tx, SubSeq(idxs, 1, n - 1), reverse), idxs[n], reverse)

\* The indices of the transactions of one side, in list order (lines 66-70).
SelectSide(tx, isBuy) ==
    SelectSeq([i \in 1..Len(tx) |-> i],
              LAMBDA i : (tx[i].side = "buy") = isBuy)

\* MatchSell with the split branch charging the whole lot (a plausible slip).
RECURSIVE MatchSell_ChargeWholeLot(_, _, _, _)
MatchSell_ChargeWholeLot(tx, remaining_buys, sell_quantity, sell_cost_basis) ==
    IF sell_quantity > 0 /\ remaining_buys # <<>>
    THEN LET b == Head(remaining_buys)
         IN  IF tx[b].quantity <= sell_quantity
             THEN MatchSell_ChargeWholeLot(tx, Tail(remaining_buys),
                            sell_quantity - tx[b].quantity,
                            sell_cost_basis + tx[b].quantity * tx[b].price)
             ELSE MatchSell_ChargeWholeLot([tx EXCEPT ![b].quantity = @ - sell_quantity],
                            remaining_buys, 0,
                            sell_cost_basis + tx[b].quantity * tx[b].price)
    ELSE [tx |-> tx, remaining_buys |-> remaining_buys,
          sell_quantity |-> sell_quantity, sell_cost_basis |-> sell_cost_basis]

\* MatchSell with the split branch forgetting to reduce the lot.
RECURSIVE MatchSell_NoSplit(_, _, _, _)
MatchSell_NoSplit(tx, remaining_buys, sell_quantity, sell_cost_basis) ==
    IF sell_quantity > 0 /\ remaining_buys # <<>>
    THEN LET b == Head(remaining_buys)
         IN  IF tx[b].quantity <= sell_quantity
             THEN MatchSell_NoSplit(tx, Tail(remaining_buys),
                            sell_quantity - tx[b].quantity,
                            sell_cost_basis + tx[b].quantity * tx[b].price)
             ELSE MatchSell_NoSplit(tx, remaining_buys, 0,
                            sell_cost_basis + sell_quantity * tx[b].price)
    ELSE [tx |-> tx, remaining_buys |-> remaining_buys,
          sell_quantity |-> sell_quantity, sell_cost_basis |-> sell_cost_basis]

\* The while loop of lines 90-102: match one sell against remaining_buys[0].
\* tx is mutated in place (buy.quantity -= sell_quantity, line 101).
RECURSIVE MatchSell(_, _, _, _)
MatchSell(tx, remaining_buys, sell_quantity, sell_cost_basis) ==
    IF sell_quantity > 0 /\ remaining_buys # <<>>
    THEN LET b == Head(remaining_buys)
         IN  IF tx[b].quantity <= sell_quantity
             THEN MatchSell(tx, Tail(remaining_buys),
                            sell_quantity - tx[b].quantity,
                            sell_cost_basis + tx[b].quantity * tx[b].price)
             ELSE MatchSell([tx EXCEPT ![b].quantity = @ - sell_quantity],
                            remaining_buys, 0,
                            sell_cost_basis + sell_quantity * tx[b].price)
    ELSE [tx |-> tx, remaining_buys |-> remaining_buys,
          sell_quantity |-> sell_quantity, sell_cost_basis |-> sell_cost_basis]

\* The for loop of lines 84-105 over the sells, oldest first.
RECURSIVE ProcessSells(_, _, _, _, _, _)
ProcessSells(tx, sells, remaining_buys, realized_pnl, costs, leftovers) ==
    IF sells = <<>>
    THEN [tx |-> tx, remaining_buys |-> remaining_buys, realized_pnl |-> realized_pnl,
          costs |-> costs, leftovers |-> leftovers]
    ELSE LET sell == tx[Head(sells)]
             sell_proceeds == sell.quantity * sell.price
             m == MatchSell(tx, remaining_buys, sell.quantity, 0)
         IN  ProcessSells(m.tx, Tail(sells), m.remaining_buys,
                          realized_pnl + sell_proceeds - m.sell_cost_basis,
                          Append(costs, m.sell_cost_basis),
                          Append(leftovers, m.sell_quantity))

\* calculate_lifo_pnl(transactions, current_price): the returned dict, the
\* transactions as the call leaves them, and the locals the claims speak of.
\* The function has no raise statement: raised is FALSE on every path.
CalculateLifoPnl(tx, price) ==
    LET buys == SortByDate(tx, SelectSide(tx, TRUE), TRUE)
        sells == SortByDate(tx, SelectSide(tx, FALSE), FALSE)
        p == ProcessSells(tx, sells, buys, 0, <<>>, <<>>)
        lots == [k \in 1..Len(p.remaining_buys) |-> p.tx[p.remaining_buys[k]]]
        remaining_quantity == SumSeq([k \in 1..Len(lots) |-> lots[k].quantity])
        remaining_cost_basis == SumSeq([k \in 1..Len(lots) |-> lots[k].quantity * lots[k].price])
        unrealized_pnl == IF remaining_quantity > 0
                          THEN remaining_quantity * price - remaining_cost_basis
                          ELSE 0
    IN  [ret |-> [realized_pnl |-> p.realized_pnl,
                  unrealized_pnl |-> unrealized_pnl,
                  total_pnl |-> p.realized_pnl + unrealized_pnl,
                  remaining_quantity |-> remaining_quantity,
                  avg_cost_basis |-> IF remaining_quantity > 0
                                     THEN remaining_cost_basis \div remaining_quantity
                                     ELSE 0],
         tx |-> p.tx,
         locals |-> [sell_cost_basis |-> p.costs,
                     sell_leftover |-> p.leftovers,
                     lots |-> lots,
                     remaining_cost_basis |-> remaining_cost_basis,
                     raised |-> FALSE]]

NoLocals == [sell_cost_basis |-> <<>>, sell_leftover |-> <<>>, lots |-> <<>>,
             remaining_cost_basis |-> 0, raised |-> FALSE]

LifoInit ==
    /\ \E n \in 1..MaxFills : transactions \in Histories(n)
    /\ current_price \in MarkPrices
    /\ lifo_given = <<>>
    /\ lifo_ret = None
    /\ lifo_locals = NoLocals
    /\ lifo_calls = 0
    /\ db_cost = None

LifoIdle ==
    /\ transactions = <<>>
    /\ current_price = 0
    /\ lifo_given = <<>>
    /\ lifo_ret = None
    /\ lifo_locals = NoLocals
    /\ lifo_calls = 0
    /\ db_cost = None

\* One call of calculate_lifo_pnl on the transaction objects held by the caller.
CallCalculateLifoPnl ==
    /\ lifo_calls < MaxCalls
    /\ LET r == CalculateLifoPnl(transactions, current_price)
       IN  /\ lifo_given' = transactions
           /\ transactions' = r.tx
           /\ lifo_ret' = r.ret
           /\ lifo_locals' = r.locals
    /\ lifo_calls' = lifo_calls + 1
    /\ UNCHANGED <<current_price, db_cost, expvars, occvars, options_csv, pickvars, btvars, livevars, thrvars, longvars, winvars>>

\* get_lifo_cost_basis(symbol, quantity) of services/database_service.py: the
\* buys of the symbol newest first, walked until quantity shares are covered.
RECURSIVE UseBuys(_, _, _, _)
UseBuys(tx, buy_transactions, remaining_quantity, total_cost_basis) ==
    IF buy_transactions = <<>> \/ remaining_quantity <= 0 THEN total_cost_basis
    ELSE LET transaction == tx[Head(buy_transactions)]
             shares_to_use == Min(remaining_quantity, transaction.quantity)
         IN  UseBuys(tx, Tail(buy_transactions), remaining_quantity - shares_to_use,
                     total_cost_basis + shares_to_use * transaction.price)

GetLifoCostBasis(tx, quantity) ==
    UseBuys(tx, SortByDate(tx, SelectSide(tx, TRUE), TRUE), quantity, 0)

\* One call of get_lifo_cost_basis for the symbol whose fills are the
\* transactions, before any call of calculate_lifo_pnl on them.
CallGetLifoCostBasis ==
    /\ db_cost = None /\ lifo_calls = 0
    /\ \E quantity \in 1..MaxQty :
          db_cost' = [quantity |-> quantity,
                      cost_basis |-> GetLifoCostBasis(transactions, quantity)]
    /\ UNCHANGED <<transactions, current_price, lifo_given, lifo_ret, lifo_locals, lifo_calls,
                   expvars, occvars, options_csv, pickvars, btvars, livevars, thrvars,
                   longvars, winvars>>

LifoNext == CallCalculateLifoPnl \/ CallGetLifoCostBasis


(***************************************************************************)
(*        datetime.date: ordinals, weekday(), year / month / day           *)
(***************************************************************************)
\* date.weekday(): Monday = 0 ... Sunday = 6; ordinal 1 (0001-01-01) is a Monday.
Weekday(d) == (d + 6) % 7

DAYS_BEFORE_MONTH == <<0, 31, 59, 90, 120, 151, 181, 212, 243, 273, 304, 334>>
DAYS_IN_MONTH == <<31, 28, 31, 30, 31, 30, 31, 31, 30, 31, 30, 31>>

\* date.fromordinal(d) as [year, month, day] (CPython's _ord2ymd), in its
\* steps: the 400-, 100-, 4- and 1-year cycles of n = d - 1 and the day n of the
\* year; then the month estimate (n + 50) >> 5 and its correction.
OrdCycles(n0) ==
    [n400 |-> n0 \div 146097,
     n100 |-> (n0 % 146097) \div 36524,
     n4   |-> ((n0 % 146097) % 36524) \div 1461,
     n1   |-> (((n0 % 146097) % 36524) % 1461) \div 365,
     n    |-> (((n0 % 146097) % 36524) % 1461) % 365]

DaysBeforeMonth(leapyear, month) ==
    DAYS_BEFORE_MONTH[month] + (IF month > 2 /\ leapyear THEN 1 ELSE 0)

DaysInMonth(leapyear, month) ==
    DAYS_IN_MONTH[month] + (IF month = 2 /\ leapyear THEN 1 ELSE 0)

MonthDay(year, leapyear, n, m0) ==
    IF DaysBeforeMonth(leapyear, m0) > n
    THEN [year |-> year, month |-> m0 - 1,
          day |-> n - (DaysBeforeMonth(leapyear, m0) - DaysInMonth(leapyear, m0 - 1)) + 1]
    ELSE [year |-> year, month |-> m0, day |-> n - DaysBeforeMonth(leapyear, m0) + 1]

YmdOfCycles(c) ==
    IF c.n1 = 4 \/ c.n100 = 4
    THEN [year |-> c.n400 * 400 + c.n100 * 100 + c.n4 * 4 + c.n1, month |-> 12, day |-> 31]
    ELSE MonthDay(c.n400 * 400 + 1 + c.n100 * 100 + c.n4 * 4 + c.n1,
                  c.n1 = 3 /\ (c.n4 # 24 \/ c.n100 = 3),
                  c.n, (c.n + 50) \div 32)

Ymd(d) == YmdOfCycles(OrdCycles(d - 1))

(***************************************************************************)
(*                              Expiry rule                                *)
(***************************************************************************)
\* The first decision date of the model: 2024-12-30, a Monday
\* (date(2024, 12, 30).toordinal()).
StartDate == 739250
ExpiryDays == 34

\* next_friday_after_t_plus_2 without the "0 means 7" line.
NextFridayAfterTPlus2_AllowZero(d) ==
    LET anchor == d + 2
        days_ahead == (4 - Weekday(anchor)) % 7
    IN  anchor + days_ahead

\* backtest_options.py next_friday_after_t_plus_2(d)
NextFridayAfterTPlus2(d) ==
    LET anchor == d + 2
        days_ahead0 == (4 - Weekday(anchor)) % 7
        days_ahead == IF days_ahead0 = 0 THEN 7 ELSE days_ahead0
    IN  anchor + days_ahead

\* scripts/trading_engine.py next_friday_after_tomorrow(today)
NextFridayAfterTomorrow(today) ==
    LET d0 == today
        d1 == d0 + 2
        days_ahead0 == (4 - Weekday(d1)) % 7
        days_ahead == IF days_ahead0 = 0 THEN 7 ELSE days_ahead0
    IN  d1 + days_ahead

ExpInit ==
    /\ exp_d \in StartDate..(StartDate + ExpiryDays)
    /\ exp_bt = 0
    /\ exp_live = 0

ExpIdle ==
    /\ exp_d = 0
    /\ exp_bt = 0
    /\ exp_live = 0

CallNextFridayAfterTPlus2 ==
    /\ exp_bt = 0
    /\ exp_bt' = NextFridayAfterTPlus2(exp_d)
    /\ UNCHANGED <<exp_d, exp_live, lifovars, occvars, options_csv, pickvars, btvars, livevars, thrvars, longvars, winvars>>

CallNextFridayAfterTomorrow ==
    /\ exp_live = 0
    /\ exp_live' = NextFridayAfterTomorrow(exp_d)
    /\ UNCHANGED <<exp_d, exp_bt, lifovars, occvars, options_csv, pickvars, btvars, livevars, thrvars, longvars, winvars>>

ExpNext == CallNextFridayAfterTPlus2 \/ CallNextFridayAfterTomorrow

(***************************************************************************)
(*                        occ_symbol and its readers                       *)
(***************************************************************************)
\* Strings are sequences of one-character strings. Strikes and option targets
\* are in ticks of 1/10000 dollar: TICKS per dollar, 10 ticks per unit of the
\* identifier's strike field (strike * 1000), 100 ticks per cent.
TICKS == 10000

DIGITS == <<"0", "1", "2", "3", "4", "5", "6", "7", "8", "9">>
LOWER == <<"a", "c", "l", "p", "t", "u">>
UPPER == <<"A", "C", "L", "P", "T", "U">>

CALL == <<"C", "A", "L", "L">>
PUT == <<"P", "U", "T">>

\* str.upper(), letter by letter
UpperChar(c) ==
    IF \E k \in 1..Len(LOWER) : LOWER[k] = c
    THEN UPPER[CHOOSE k \in 1..Len(LOWER) : LOWER[k] = c]
    ELSE c
Upper(str) == [k \in 1..Len(str) |-> UpperChar(str[k])]

\* round(): to the nearest multiple of unit, ties to the even multiple.
RoundHalfEven(x, unit) ==
    LET q == x \div unit
        r == x % unit
    IN  IF 2 * r < unit THEN q
        ELSE IF 2 * r > unit THEN q + 1
        ELSE IF q % 2 = 0 THEN q ELSE q + 1

\* The decimal digits of n >= 0.
RECURSIVE Decimal(_)
Decimal(n) == IF n < 10 THEN <<DIGITS[n + 1]>>
              ELSE Decimal(n \div 10) \o <<DIGITS[(n % 10) + 1]>>

\* f"{n:0wd}": at least w digits, zero-padded on the left.
ZeroPad(n, w) ==
    LET ds == Decimal(n)
    IN  IF Len(ds) >= w THEN ds ELSE [k \in 1..(w - Len(ds)) |-> "0"] \o ds

\* "C" if cp.upper().startswith("C") else "P"
RightChar(cp) == IF Len(cp) > 0 /\ UpperChar(cp[1]) = "C" THEN "C" ELSE "P"

\* The identifier with month and day not zero-padded (f"{m}{d}").
OccFormat_NoPad(under, e, cp, strike_int) ==
    Upper(under) \o ZeroPad(e.year % 100, 2) \o Decimal(e.month) \o Decimal(e.day)
        \o <<cp>> \o ZeroPad(strike_int, 8)

\* f"{under.upper()}{y:02d}{m:02d}{d:02d}{cp}{strike_int:08d}"
OccFormat(under, e, cp, strike_int) ==
    Upper(under) \o ZeroPad(e.year % 100, 2) \o ZeroPad(e.month, 2) \o ZeroPad(e.day, 2)
        \o <<cp>> \o ZeroPad(strike_int, 8)

\* backtest_options.py occ_symbol(under, expiry, cp, strike):
\* strike_int = int(round(strike * 1000))
OccSymbol(under, expiry, cp, strike) ==
    OccFormat(under, Ymd(expiry), RightChar(cp), RoundHalfEven(strike, 10))

\* ch in occ[len(symbol):len(symbol)+7], the test Backtester.run applies to a
\* held identifier to tell calls ("C") from puts ("P").
InRightSlice(ch, symbol, occ) ==
    \E k \in (Len(symbol) + 1)..Min(Len(symbol) + 7, Len(occ)) : occ[k] = ch

OccUnderlyings == {<<"A">>, <<"C", "P">>, <<"P", "C", "C">>, <<"a">>}
\* 2025-01-03, 2025-01-13, 2025-11-03
OccExpiries == {StartDate + 4, StartDate + 14, StartDate + 308}
\* $0.50, $100.00, $100.50, $99999.99
OccStrikes == {5000, 1000000, 1005000, 999999900}

OccRefs == [under : OccUnderlyings, expiry : OccExpiries, cp : {CALL, PUT}, strike : OccStrikes]

OccInit ==
    /\ occ_ref \in [1..2 -> OccRefs]
    /\ occ_id = <<<<>>, <<>>>>

OccIdle ==
    /\ occ_ref = <<>>
    /\ occ_id = <<>>

\* One call of occ_symbol on the k-th ref.
CallOccSymbol(k) ==
    /\ occ_id[k] = <<>>
    /\ occ_id' = [occ_id EXCEPT ![k] = OccSymbol(occ_ref[k].under, occ_ref[k].expiry,
                                                 occ_ref[k].cp, occ_ref[k].strike)]
    /\ UNCHANGED <<occ_ref, lifovars, expvars, options_csv, pickvars, btvars, livevars, thrvars, longvars, winvars>>

OccNext == \E k \in 1..2 : CallOccSymbol(k)

(***************************************************************************)
(*              OptionsProvider and the contract selection                 *)
(***************************************************************************)
MIN_OPTIONS_VOL == 50
OPT_STRIKE_PRICE_PCT_TARGET == 0
SEARCH_RADIUS == 10
\* np.nan as a close; every real price of the model is >= 0.
NaN == -1

\* Backtester.symbol (under.upper())
symbol == <<"P", "C">>

\* pick_occ's None (an identifier is a non-empty string)
NoOcc == <<>>

\* CSVProvider.get_day_bar(occ, day): {"close", "volume"} of the row of the
\* file with that date and identifier, or None. The file holds one row per
\* contract and day.
GetDayBar(occ, day) ==
    LET row == {r \in options_csv : r.date = day /\ r.occ = occ}
    IN  IF row = {} THEN None
        ELSE LET r == CHOOSE r \in row : TRUE
             IN  [close |-> r.close, volume |-> r.volume]

\* Backtester.price_occ(occ, day): the bar's close if finite, else None (NaN here)
PriceOcc(occ, day) ==
    LET bar == GetDayBar(occ, day)
    IN  IF bar = None THEN NaN
        ELSE IF bar.close # NaN THEN bar.close ELSE NaN

\* target = last_px * (1 + strike_pct if CALL else 1 - strike_pct), in ticks;
\* the percentage is a whole number of percent.
Target(last_px, isCall, pct) ==
    IF isCall THEN (last_px * (100 + pct)) \div 100
    ELSE (last_px * (100 - pct)) \div 100

\* The candidates in the order the two nested loops append them:
\* off = 0..10, and for each off sgn = +1 then -1.
CandidateOrder ==
    [k \in 1..(2 * (SEARCH_RADIUS + 1)) |->
        [off |-> (k - 1) \div 2, sgn |-> IF k % 2 = 1 THEN 1 ELSE -1]]

\* pick_occ: strike = max(0.5, round(target + sgn*off, 2))
BtStrike(target, c) ==
    Max(TICKS \div 2, RoundHalfEven(target + c.sgn * c.off * TICKS, 100) * 100)

\* pick_option_contract: strike = max(0.5, target_px + sign*off)
LiveStrike(target, c) ==
    Max(TICKS \div 2, target + c.sgn * c.off * TICKS)

\* candidates.sort(key=lambda x: x[0]): a stable sort on the distance alone.
RECURSIVE InsertByDist(_, _)
InsertByDist(sorted, c) ==
    IF sorted = <<>> THEN <<c>>
    ELSE IF c.dist < Head(sorted).dist THEN <<c>> \o sorted
    ELSE <<Head(sorted)>> \o InsertByDist(Tail(sorted), c)

RECURSIVE SortByDist(_)
SortByDist(cs) ==
    IF cs = <<>> THEN <<>>
    ELSE InsertByDist(SortByDist(SubSeq(cs, 1, Len(cs) - 1)), cs[Len(cs)])

BtCandidates(last_px, isCall) ==
    LET target == Target(last_px, isCall, OPT_STRIKE_PRICE_PCT_TARGET)
    IN  SortByDist([k \in 1..Len(CandidateOrder) |->
            LET strike == BtStrike(target, CandidateOrder[k])
            IN  [dist |-> Abs(strike - target), strike |-> strike]])

LiveCandidates(last_px, isCall) ==
    LET target == Target(last_px, isCall, OPT_STRIKE_PRICE_PCT_TARGET)
    IN  SortByDist([k \in 1..Len(CandidateOrder) |->
            LET strike == LiveStrike(target, CandidateOrder[k])
            IN  [dist |-> Abs(strike - target), strike |-> strike]])

\* The scan of lines 225-231: the first candidate with a bar, enough volume and
\* a finite close.
BtAccepts(bar) == bar # None /\ bar.volume >= MIN_OPTIONS_VOL /\ bar.close # NaN

RECURSIVE BtScan(_, _, _, _)
BtScan(cands, expiry, cp1, day) ==
    IF cands = <<>> THEN NoOcc
    ELSE IF BtAccepts(GetDayBar(OccSymbol(symbol, expiry, cp1, Head(cands).strike), day))
    THEN OccSymbol(symbol, expiry, cp1, Head(cands).strike)
    ELSE BtScan(Tail(cands), expiry, cp1, day)

\* Backtester.pick_occ(day, last_px, cp), cp one of CALL, PUT
PickOcc(day, last_px, cp) ==
    BtScan(BtCandidates(last_px, cp = CALL), NextFridayAfterTPlus2(day),
           IF cp = CALL THEN <<"C">> ELSE <<"P">>, day)

\* scripts/trading_engine.py occ_symbol(symbol, expiry, call_or_put, strike)
OccSymbolLive(sym, expiry, call_or_put, strike) ==
    OccFormat(sym, Ymd(expiry), RightChar(call_or_put), RoundHalfEven(strike, 10))

\* The scan of lines 361-378: the first candidate with a latest trade and a
\* latest daily bar whose volume reaches MIN_OPTIONS_VOL. The broker's latest
\* trade and latest bar of a contract are its row of the current day.
LiveAccepts(bar) == bar # None /\ bar.volume >= MIN_OPTIONS_VOL

RECURSIVE LiveScan(_, _, _, _, _)
LiveScan(cands, sym, expiry, call_or_put, today) ==
    IF cands = <<>> THEN NoOcc
    ELSE IF LiveAccepts(GetDayBar(OccSymbolLive(sym, expiry, call_or_put, Head(cands).strike), today))
    THEN OccSymbolLive(sym, expiry, call_or_put, Head(cands).strike)
    ELSE LiveScan(Tail(cands), sym, expiry, call_or_put, today)

\* pick_option_contract(symbol, last_px, evars, call_or_put) on the day today
PickOptionContract(sym, last_px, call_or_put, today) ==
    LiveScan(LiveCandidates(last_px, Len(call_or_put) > 0 /\ UpperChar(call_or_put[1]) = "C"),
             sym, NextFridayAfterTomorrow(today), call_or_put, today)

MaxLiquid == 2
MaxListedOff == 4
\* $3.00, $100.00, $100.005
PickPrices == {30000, 1000000, 1000050}
ThinVolume == {0, MIN_OPTIONS_VOL - 1}

\* The strikes either selector probes for the arguments a at offsets up to
\* MaxListedOff: the contracts the file lists for the day.
ListedStrikes(a) ==
    LET target == Target(a.last_px, a.cp = CALL, OPT_STRIKE_PRICE_PCT_TARGET)
        near == {k \in 1..Len(CandidateOrder) : CandidateOrder[k].off <= MaxListedOff}
    IN  {BtStrike(target, CandidateOrder[k]) : k \in near}
        \cup {LiveStrike(target, CandidateOrder[k]) : k \in near}

\* A day of option data for the arguments a: the strikes of liquid trade with
\* volume MIN_OPTIONS_VOL or more, every other listed strike with volume thin.
PickData(a, listed, liquid, thin) ==
    LET e == NextFridayAfterTPlus2(a.day)
    IN  {[date |-> a.day, occ |-> OccSymbol(symbol, e, a.cp, k), open |-> 2, close |-> 3,
          volume |-> IF k \in liquid THEN MIN_OPTIONS_VOL + k \div TICKS ELSE thin]
            : k \in listed}

\* The sets of at most MaxLiquid elements of S.
RECURSIVE UpTo(_, _)
UpTo(S, n) ==
    IF n = 0 THEN {{}}
    ELSE LET smaller == UpTo(S, n - 1)
         IN  smaller \cup {T \cup {x} : T \in smaller, x \in S}

NotCalled == [called |-> FALSE, occ |-> NoOcc]

PickInit ==
    /\ pick_in \in [day : {StartDate, StartDate + 2}, last_px : PickPrices, cp : {CALL, PUT}]
    /\ LET listed == ListedStrikes(pick_in)
       IN  \E liquid \in UpTo(listed, MaxLiquid), thin \in ThinVolume :
              options_csv = PickData(pick_in, listed, liquid, thin)
    /\ pick_bt = NotCalled
    /\ pick_live = NotCalled

PickIdle ==
    /\ pick_in = None
    /\ pick_bt = NotCalled
    /\ pick_live = NotCalled

NoOptionData == options_csv = {}

CallPickOcc ==
    /\ ~pick_bt.called
    /\ pick_bt' = [called |-> TRUE, occ |-> PickOcc(pick_in.day, pick_in.last_px, pick_in.cp)]
    /\ UNCHANGED <<pick_in, pick_live, options_csv, lifovars, expvars, occvars, btvars, livevars, thrvars, longvars, winvars>>

CallPickOptionContract ==
    /\ ~pick_live.called
    /\ pick_live' = [called |-> TRUE,
                     occ |-> PickOptionContract(symbol, pick_in.last_px, pick_in.cp, pick_in.day)]
    /\ UNCHANGED <<pick_in, pick_bt, options_csv, lifovars, expvars, occvars, btvars, livevars, thrvars, longvars, winvars>>

PickNext == CallPickOcc \/ CallPickOptionContract

(***************************************************************************)
(*                               Backtester                                *)
(***************************************************************************)
\* Floats are fixed point: money in whole dollars, share quantities in
\* 1/QTY_SCALE share, both truncated.
QTY_SCALE == 1000
CONSECUTIVE_PERIODS == 2
SD_ABS_THRESH_PCT == 0
CASH_INVEST_STOCK_PCT == 25
CASH_INVEST_OPTION_PCT == 25
MOMENTUM_DECR_PCT == 20
\* The dollars of a sell-everything order (1e12 in the source, here the largest
\* power of ten the model's integers hold; larger than any position).
SELL_ALL_DOLLARS == 1000000000
OPTION_MULTIPLIER == 100

NBars == 6
NWarm == 1
sma_len == 5

STOCK == <<"s", "t", "o", "c", "k">>
BUY == <<"b", "u", "y">>
SELL == <<"s", "e", "l", "l">>

\* The k-th trading day (k >= 0) from StartDate, a Monday: weekends are skipped.
TradingDay(k) == StartDate + 7 * (k \div 5) + (k % 5)

\* ---- Position.options: a dict, in insertion order, as [occ, qty] items ----
DictKeys(dict) == [k \in 1..Len(dict) |-> dict[k].occ]
DictHas(dict, occ) == \E k \in 1..Len(dict) : dict[k].occ = occ
DictGet(dict, occ, default) ==
    IF DictHas(dict, occ)
    THEN dict[CHOOSE k \in 1..Len(dict) : dict[k].occ = occ].qty
    ELSE default
DictSet(dict, occ, qty) ==
    IF DictHas(dict, occ)
    THEN [k \in 1..Len(dict) |-> IF dict[k].occ = occ THEN [occ |-> occ, qty |-> qty] ELSE dict[k]]
    ELSE Append(dict, [occ |-> occ, qty |-> qty])
DictPop(dict, occ) == SelectSeq(dict, LAMBDA it : it.occ # occ)

Trade(d, sym, asset, side, qty, price, notional) ==
    [date |-> d, symbol |-> sym, asset |-> asset, side |-> side, qty |-> qty,
     price |-> price, notional |-> notional]

\* The mutable part of a Backtester, threaded through the calls of one bar.
Book == [cash |-> cash, pos |-> pos, ledger |-> ledger]

\* Backtester.trade_stock(d, price, dollars, side)
TradeStock(b, d, price, dollars, side) ==
    IF dollars <= 0 THEN b
    ELSE LET qty == (dollars * QTY_SCALE) \div price
         IN  IF side = BUY
             THEN [cash |-> b.cash - dollars,
                   pos |-> [b.pos EXCEPT !.qty_stock = @ + qty],
                   ledger |-> Append(b.ledger,
                       Trade(d, symbol, STOCK, side, qty, price, (qty * price) \div QTY_SCALE))]
             ELSE LET sell_qty == Min(qty, b.pos.qty_stock)
                      proceeds == (sell_qty * price) \div QTY_SCALE
                  IN  [cash |-> b.cash + proceeds,
                       pos |-> [b.pos EXCEPT !.qty_stock = @ - sell_qty],
                       ledger |-> Append(b.ledger,
                           Trade(d, symbol, STOCK, side, sell_qty, price,
                                 (sell_qty * price) \div QTY_SCALE))]

\* trade_option without the "cash < notional" refusal of a buy.
TradeOption_NoCashCheck(b, d, occ, price, dollars, side) ==
    IF dollars <= 0 \/ price <= 0 THEN b
    ELSE LET contracts == Max(1, dollars \div (price * OPTION_MULTIPLIER))
             notional == contracts * price * OPTION_MULTIPLIER
         IN  IF side = BUY
             THEN [cash |-> b.cash - notional,
                   pos |-> [b.pos EXCEPT !.options =
                               DictSet(@, occ, DictGet(@, occ, 0) + contracts)],
                   ledger |-> Append(b.ledger,
                       Trade(d, symbol, occ, side, contracts, price, notional))]
             ELSE LET have == DictGet(b.pos.options, occ, 0)
                      sell_qty == Min(have, contracts)
                      proceeds == sell_qty * price * OPTION_MULTIPLIER
                      left == have - sell_qty
                  IN  IF have <= 0 THEN b
                      ELSE [cash |-> b.cash + proceeds,
                            pos |-> [b.pos EXCEPT !.options =
                                        IF left > 0 THEN DictSet(@, occ, left)
                                        ELSE DictPop(@, occ)],
                            ledger |-> Append(b.ledger,
                                Trade(d, symbol, occ, side, sell_qty, price, notional))]

\* Backtester.trade_option(d, occ, price, dollars, side). The ledger row of a
\* sell carries the notional computed before the quantity is clamped (line 290).
TradeOption(b, d, occ, price, dollars, side) ==
    IF dollars <= 0 \/ price <= 0 THEN b
    ELSE LET contracts == Max(1, dollars \div (price * OPTION_MULTIPLIER))
             notional == contracts * price * OPTION_MULTIPLIER
         IN  IF side = BUY
             THEN IF b.cash < notional THEN b
                  ELSE [cash |-> b.cash - notional,
                        pos |-> [b.pos EXCEPT !.options =
                                    DictSet(@, occ, DictGet(@, occ, 0) + contracts)],
                        ledger |-> Append(b.ledger,
                            Trade(d, symbol, occ, side, contracts, price, notional))]
             ELSE LET have == DictGet(b.pos.options, occ, 0)
                      sell_qty == Min(have, contracts)
                      proceeds == sell_qty * price * OPTION_MULTIPLIER
                      left == have - sell_qty
                  IN  IF have <= 0 THEN b
                      ELSE [cash |-> b.cash + proceeds,
                            pos |-> [b.pos EXCEPT !.options =
                                        IF left > 0 THEN DictSet(@, occ, left)
                                        ELSE DictPop(@, occ)],
                            ledger |-> Append(b.ledger,
                                Trade(d, symbol, occ, side, sell_qty, price, notional))]

\* price_occ(...) or 0.0
OrZero(px) == IF px = NaN THEN 0 ELSE px

\* for occ in list(self.pos.options.keys()): if <ch> in occ[...]: sell it all at
\* its price of day d, when that price is > 0. ch = "" closes every leg.
RECURSIVE CloseLegs(_, _, _, _)
CloseLegs(b, keys, ch, d) ==
    IF keys = <<>> THEN b
    ELSE LET occ == Head(keys)
             px == OrZero(PriceOcc(occ, d))
             b1 == IF (ch = "" \/ InRightSlice(ch, symbol, occ)) /\ px > 0
                   THEN TradeOption(b, d, occ, px, SELL_ALL_DOLLARS, SELL)
                   ELSE b
         IN  CloseLegs(b1, Tail(keys), ch, d)

\* occ = self.pick_occ(today, last_close, cp); if occ: buy it at its price of
\* day d for pct percent of the cash.
BuyLeg(b, occ, d, pct_num, pct_den) ==
    IF occ = NoOcc THEN b
    ELSE TradeOption(b, d, occ, OrZero(PriceOcc(occ, d)), (b.cash * pct_num) \div pct_den, BUY)

\* A leg that makes a second selection attempt, on the fill date, when pick_occ
\* finds no contract on the decision date.
OpenLeg_Retry(b, today, last_close, cp, d, pct_num, pct_den) ==
    IF PickOcc(today, last_close * TICKS, cp) # NoOcc
    THEN BuyLeg(b, PickOcc(today, last_close * TICKS, cp), d, pct_num, pct_den)
    ELSE BuyLeg(b, PickOcc(d, last_close * TICKS, cp), d, pct_num, pct_den)

OpenLeg(b, today, last_close, cp, d, pct_num, pct_den) ==
    BuyLeg(b, PickOcc(today, last_close * TICKS, cp), d, pct_num, pct_den)

\* ---- signals ----
\* moves: the sign of each delta of the price window
Moves_FlatUp(w) == [k \in 1..(Len(w) - 1) |->
                       IF w[k + 1] >= w[k] THEN 1 ELSE -1]

Moves(w) == [k \in 1..(Len(w) - 1) |->
                IF w[k + 1] > w[k] THEN 1 ELSE IF w[k + 1] < w[k] THEN -1 ELSE 0]

LastAll(moves, n, v) ==
    /\ Len(moves) >= n
    /\ \A k \in (Len(moves) - n + 1)..Len(moves) : moves[k] = v

\* rolling(sma_len) over self.df's closes at row idx: the window's sum and sum
\* of squares, defined once sma_len rows exist.
HasSma(idx) == idx >= sma_len
WindowSum(idx) == SumSeq([k \in 1..sma_len |-> df[idx - sma_len + k].close])
WindowSq(idx) == SumSeq([k \in 1..sma_len |-> df[idx - sma_len + k].close * df[idx - sma_len + k].close])

\* n*(close - sma) and (n*sd)^2, n = sma_len (std with ddof=0)
DevN(idx) == sma_len * df[idx].close - WindowSum(idx)
VarNN(idx) == sma_len * WindowSq(idx) - WindowSum(idx) * WindowSum(idx)

\* sma <= 0 or abs((last_close - sma)/sma) >= sd_abs_pct
AbsFloorOk(idx) ==
    \/ WindowSum(idx) <= 0
    \/ 100 * Abs(DevN(idx)) >= SD_ABS_THRESH_PCT * WindowSum(idx)

\* last_close > sma21 + sd21
AbovePlusSd(idx) ==
    /\ HasSma(idx)
    /\ DevN(idx) > 0 /\ DevN(idx) * DevN(idx) > VarNN(idx)
    /\ AbsFloorOk(idx)

\* last_close < sma21 - sd21
BelowMinusSd(idx) ==
    /\ HasSma(idx)
    /\ DevN(idx) < 0 /\ DevN(idx) * DevN(idx) > VarNN(idx)
    /\ AbsFloorOk(idx)

\* Backtester.sector_trend(day_idx), day_idx = idx - 1 counted from 0
SectorTrend(idx) ==
    IF df_sector = <<>> \/ idx - 1 < 2 THEN 0
    ELSE LET upto == Min(idx, Len(df_sector))
             closes == SubSeq(df_sector, Max(1, upto - 4), upto)
             ups == Cardinality({k \in 1..(Len(closes) - 1) : closes[k + 1] > closes[k]})
             downs == Cardinality({k \in 1..(Len(closes) - 1) : closes[k + 1] < closes[k]})
         IN  IF ups > downs THEN 1 ELSE IF downs > ups THEN -1 ELSE 0

\* dec_mom of lines 329-334
DecMom(w) ==
    /\ Len(w) >= 4
    /\ LET m_now == Abs(w[Len(w)] - w[Len(w) - 1])
           m_prev == Abs(w[Len(w) - 1] - w[Len(w) - 2])
       IN  m_prev > 0 /\ 100 * (m_prev - m_now) >= MOMENTUM_DECR_PCT * m_prev

\* price_window.append(last_close), cut to the last consec + 3
PushWindowFor(k, w, px) ==
    LET w1 == Append(w, px)
        cap == k + 3
    IN  IF Len(w1) > cap THEN SubSeq(w1, Len(w1) - cap + 1, Len(w1)) ELSE w1

PushWindow(w, px) == PushWindowFor(CONSECUTIVE_PERIODS, w, px)

\* The row of self.df that holds row r of the bars in [start, end].
DayIdx(r) == NWarm + r

\* len(df), the number of bars in [start, end]
RunLen == Len(df) - NWarm

\* self.trade_stock(d, open_next, self.cash * self.cash_stock_pct, "buy")
BuyStock(b, d, open_next) ==
    TradeStock(b, d, open_next, (b.cash * CASH_INVEST_STOCK_PCT) \div 100, BUY)

\* if self.pos.qty_stock > 0: sell (qty_stock * open_next) * 0.5 dollars of it
SellHalfStock(b, d, open_next) ==
    IF b.pos.qty_stock > 0
    THEN TradeStock(b, d, open_next, ((b.pos.qty_stock * open_next) \div QTY_SCALE) \div 2, SELL)
    ELSE b

\* moves[-2], moves[-1] are +1, -1 or -1, +1
Reversed(moves) ==
    /\ Len(moves) >= 2
    /\ \/ moves[Len(moves) - 1] = 1 /\ moves[Len(moves)] = -1
       \/ moves[Len(moves) - 1] = -1 /\ moves[Len(moves)] = 1

\* last_move = moves[-1] if moves else 0
LastMove(moves) == IF moves # <<>> THEN moves[Len(moves)] ELSE 0

\* ---- the four rules of one bar, in the order of lines 336-376 ----
FallingRule(b, w, idx, today, next_date) ==
    IF LastAll(Moves(w), CONSECUTIVE_PERIODS, -1) /\ (AbovePlusSd(idx) \/ SectorTrend(idx) = -1)
    THEN OpenLeg(CloseLegs(b, DictKeys(b.pos.options), "C", next_date),
                 today, df[idx].close, PUT, next_date, CASH_INVEST_OPTION_PCT, 100)
    ELSE b

RisingRule(b, w, idx, today, next_date, open_next) ==
    IF LastAll(Moves(w), CONSECUTIVE_PERIODS, 1) /\ (BelowMinusSd(idx) \/ SectorTrend(idx) = 1)
    THEN BuyStock(OpenLeg(CloseLegs(b, DictKeys(b.pos.options), "P", next_date),
                          today, df[idx].close, CALL, next_date, CASH_INVEST_OPTION_PCT, 100),
                  next_date, open_next)
    ELSE b

DecMomRule(b, w, idx, today, next_date) ==
    IF DecMom(w) /\ LastMove(Moves(w)) > 0
    THEN OpenLeg(b, today, df[idx].close, CALL, next_date, CASH_INVEST_OPTION_PCT, 200)
    ELSE IF DecMom(w) /\ LastMove(Moves(w)) < 0
    THEN OpenLeg(b, today, df[idx].close, PUT, next_date, CASH_INVEST_OPTION_PCT, 200)
    ELSE b

ReversalRule(b, w, next_date, open_next) ==
    IF Reversed(Moves(w))
    THEN SellHalfStock(CloseLegs(b, DictKeys(b.pos.options), "", next_date), next_date, open_next)
    ELSE b

\* The stock orders of bar r filled at bar r's own close.
OpenNext_TodayClose(r) == df[DayIdx(r)].close

\* The price of the next bar at which the stock orders of bar r fill:
\* open_next = float(df.loc[i+1, "open"])
OpenNext(r) == df[DayIdx(r + 1)].open

\* Backtester.mtm_equity(d, idx): the equity, and last_prices as it leaves them.
RECURSIVE MarkOptions(_, _, _, _)
MarkOptions(items, last_prices, d, eq) ==
    IF items = <<>> THEN [eq |-> eq, last_prices |-> last_prices]
    ELSE LET it == Head(items)
             px == PriceOcc(it.occ, d)
             lp == IF px # NaN THEN DictSet(last_prices, it.occ, px) ELSE last_prices
             px_use == DictGet(lp, it.occ, 0)
         IN  MarkOptions(Tail(items), lp, d, eq + it.qty * px_use * OPTION_MULTIPLIER)

MtmEquity(b, d, idx) ==
    MarkOptions(b.pos.options, b.pos.last_prices, d,
                b.cash + (b.pos.qty_stock * df[idx].close) \div QTY_SCALE)

\* ---- inputs ----
CloseValues == {100, 101, 103}
WarmClose == 100

\* One input of a run: the gap of every open to the previous close, the initial
\* cash, the sector ETF's closes (0: no confirmation, 1: rising, -1: falling,
\* 2: rising up to the third bar of the run and falling after it), the option
\* data, and the number of bars that [start, end] holds.
Scenarios ==
    { [gap |-> -1, cash0 |-> 100000, sector |-> 1,  data |-> "flat",  bars |-> NBars],
      [gap |-> 2,  cash0 |-> 100000, sector |-> -1, data |-> "flat",  bars |-> NBars],
      [gap |-> 2,  cash0 |-> 100000, sector |-> 2,  data |-> "gappy", bars |-> NBars],
      [gap |-> -1, cash0 |-> 100000, sector |-> 2,  data |-> "flat",  bars |-> NBars],
      [gap |-> 2,  cash0 |-> 250,    sector |-> 1,  data |-> "flat",  bars |-> NBars],
      [gap |-> -1, cash0 |-> 100000, sector |-> 1,  data |-> "none",  bars |-> NBars],
      [gap |-> 2,  cash0 |-> 100000, sector |-> 0,  data |-> "flat",  bars |-> NBars],
      [gap |-> 2,  cash0 |-> 100000, sector |-> 0,  data |-> "flat",  bars |-> 0] }

\* The strikes (in dollars) the option file lists.
ListedDollars == {99}

\* The sector ETF's close on row k of the loaded bars.
SectorClose(sector, k) ==
    IF sector = 2
    THEN (IF k - NWarm <= 2 THEN 50 ELSE IF k - NWarm = 3 THEN 51 ELSE 54 - (k - NWarm))
    ELSE 50 + sector * k

\* options.csv of a scenario over the n loaded dates: "flat" opens every contract
\* at 2 and closes it at 3 each day with volume 60; "gappy" has no rows on every
\* fifth bar of the run, and prices that move with the day.
OptionsFile(data, n) ==
    IF data = "none" THEN {}
    ELSE {[date |-> TradingDay(k - 1),
           occ |-> OccSymbol(symbol, NextFridayAfterTPlus2(TradingDay(j - 1)), cp, strike * TICKS),
           open |-> IF data = "flat" THEN 2 ELSE 1 + (k % 2),
           close |-> IF data = "flat" THEN 3 ELSE 2 + (k % 4),
           volume |-> 60]
              : k \in {m \in 1..n : data = "flat" \/ (m - NWarm) % 5 # 0},
                j \in 1..n, cp \in {CALL, PUT}, strike \in ListedDollars}

BtInitOver(values) ==
    \E closes \in [1..NBars -> values], sc \in Scenarios :
        LET close(k) == IF k <= NWarm THEN WarmClose ELSE closes[k - NWarm]
        IN  /\ df = [k \in 1..(NWarm + sc.bars) |->
                        [date |-> TradingDay(k - 1),
                         open |-> IF k = 1 THEN close(1) ELSE close(k - 1) + sc.gap,
                         close |-> close(k)]]
            /\ df_sector = IF sc.sector = 0 THEN <<>>
                           ELSE [k \in 1..(NWarm + sc.bars) |-> SectorClose(sc.sector, k)]
            /\ options_csv = OptionsFile(sc.data, NWarm + sc.bars)
            /\ cash = sc.cash0
            /\ pos = [qty_stock |-> 0, options |-> <<>>, last_prices |-> <<>>]
            /\ ledger = <<>>
            /\ equity_series = <<>>
            /\ price_window = <<>>
            /\ loop_i = 1
            /\ pc = "loop"

BtInit == BtInitOver(CloseValues)

BtIdle ==
    /\ df = <<>>
    /\ df_sector = <<>>
    /\ cash = 0
    /\ pos = [qty_stock |-> 0, options |-> <<>>, last_prices |-> <<>>]
    /\ ledger = <<>>
    /\ equity_series = <<>>
    /\ price_window = <<>>
    /\ loop_i = 0
    /\ pc = "idle"

\* The four rules applied in turn to the book b on row idx of self.df, with the
\* price window w of the bar.
Rules(b, w, idx, today, next_date, open_next) ==
    ReversalRule(
        DecMomRule(
            RisingRule(
                FallingRule(b, w, idx, today, next_date),
                w, idx, today, next_date, open_next),
            w, idx, today, next_date),
        w, next_date, open_next)

\* eq = self.mtm_equity(d, idx); self.equity_series.append((d, eq)), on the
\* book b the rules left.
Mark(b, m, d) ==
    /\ cash' = b.cash
    /\ pos' = [b.pos EXCEPT !.last_prices = m.last_prices]
    /\ ledger' = b.ledger
    /\ equity_series' = Append(equity_series, <<d, m.eq>>)

MarkToMarket(b, d, idx) == Mark(b, MtmEquity(b, d, idx), d)

\* One iteration of the bar loop of run() (lines 301-379).
RunBar ==
    /\ pc = "loop"
    /\ loop_i <= RunLen - 1
    /\ price_window' = PushWindow(price_window, df[DayIdx(loop_i)].close)
    /\ MarkToMarket(Rules(Book, price_window', DayIdx(loop_i), df[DayIdx(loop_i)].date,
                          df[DayIdx(loop_i + 1)].date, OpenNext(loop_i)),
                    df[DayIdx(loop_i)].date, DayIdx(loop_i))
    /\ loop_i' = loop_i + 1
    /\ UNCHANGED <<pc, df, df_sector, options_csv, lifovars, expvars, occvars, pickvars, livevars, thrvars, longvars, winvars>>

\* After the loop: the last bar's equity point (lines 381-383); run() returns.
RunFinish ==
    /\ pc = "loop"
    /\ RunLen >= 1
    /\ loop_i = RunLen
    /\ MarkToMarket(Book, df[DayIdx(RunLen)].date, DayIdx(RunLen))
    /\ pc' = "done"
    /\ UNCHANGED <<loop_i, price_window, df, df_sector, options_csv,
                   lifovars, expvars, occvars, pickvars, livevars, thrvars, longvars, winvars>>

\* After the loop, with no bar in [start, end]: df.loc[len(df)-1, "date"] of
\* line 381 raises KeyError and run() is left by the exception.
RunRaise ==
    /\ pc = "loop"
    /\ RunLen = 0
    /\ pc' = "raised"
    /\ UNCHANGED <<loop_i, cash, pos, ledger, equity_series, price_window, df, df_sector,
                   options_csv, lifovars, expvars, occvars, pickvars, livevars, thrvars, longvars, winvars>>

Next == RunBar \/ RunFinish \/ RunRaise

(***************************************************************************)
(*        scripts/trading_engine.py: the live polling engine               *)
(***************************************************************************)
MIN_CASH_USD == 100
MIN_PRICE_USD == 2
MAX_OPEN_POSITIONS == 25
N_WINDOW == Max(CONSECUTIVE_PERIODS + 3, 5)

\* The polls explored: MaxCycles cycles over the whole universe, more cycles
\* over a shorter one.
MaxCycles == 3

\* get_priority_symbols(): the universe, in the order of the query
LiveSyms == << <<"A", "A">>, <<"A", "A", "B">> >>
\* date.today(): the polling cycles of a run fall on one day
LiveToday == StartDate

Digits == {"0", "1", "2", "3", "4", "5", "6", "7", "8", "9"}

\* not any(c in s for c in 'CP0123456789')
IsStockName(s) == \A k \in 1..Len(s) : s[k] \notin ({"C", "P"} \cup Digits)

\* get_cash_and_positions(): the account's cash and its positions. Stock
\* positions outside the universe are held as two counts: names without a
\* letter C or P (plain), and names with one (cp).
GetCashAndPositions ==
    [cash |-> acct.cash,
     positions |-> [stocks |-> acct.stocks, plain |-> acct.plain, cp |-> acct.cp,
                    options |-> acct.options]]

\* len(stock_pos_syms) of line 572
StockPosSyms(positions) ==
    Cardinality({i \in 1..Len(LiveSyms) : positions.stocks[i] > 0 /\ IsStockName(LiveSyms[i])})
        + positions.plain

\* The stock positions the account holds.
OpenPositions(a) ==
    Cardinality({i \in 1..Len(LiveSyms) : a.stocks[i] > 0}) + a.plain + a.cp

\* latest_option_price(occ) or 0.0: the contract's latest trade of the day
LatestOptionPrice(occ) == OrZero(PriceOcc(occ, LiveToday))

\* One call of trade.submit_order / trade.close_position, with the note that
\* log_order records for it, the account's cash and stock positions at the
\* call, and whether the broker took it.
Order(L, kind, sym, occ, side, qty, notional, px, note, accepted) ==
    [kind |-> kind, sym |-> sym, occ |-> occ, side |-> side, qty |-> qty,
     notional |-> notional, px |-> px, note |-> note, accepted |-> accepted,
     avail |-> L.acct.cash, open |-> OpenPositions(L.acct), cycle |-> cyc.n]

\* The broker fills a market order at the latest price when the account's cash
\* covers it and refuses it otherwise (submit_order raises).
FillOptionBuy(L, sym, occ, px, qty, hint, note) ==
    IF qty * px * OPTION_MULTIPLIER <= L.acct.cash
    THEN [L EXCEPT !.acct.cash = @ - qty * px * OPTION_MULTIPLIER,
                   !.acct.options = DictSet(@, occ, DictGet(@, occ, 0) + qty),
                   !.orders = Append(@, Order(L, "option", sym, occ, BUY, qty, hint, px, note, TRUE))]
    ELSE [L EXCEPT !.orders = Append(@, Order(L, "option", sym, occ, BUY, qty, hint, px, note, FALSE))]

\* An option buy that is not submitted when its cost exceeds the account's cash.
BuyOptionContract_CashChecked(L, sym, occ, notional_hint, note) ==
    IF LatestOptionPrice(occ) <= 0 THEN L
    ELSE IF Max(1, notional_hint \div (LatestOptionPrice(occ) * OPTION_MULTIPLIER))
                * LatestOptionPrice(occ) * OPTION_MULTIPLIER > L.acct.cash
    THEN L
    ELSE FillOptionBuy(L, sym, occ, LatestOptionPrice(occ),
                       Max(1, notional_hint \div (LatestOptionPrice(occ) * OPTION_MULTIPLIER)),
                       notional_hint, note)

\* buy_option_contract(occ, notional_hint, note); a refused order is caught.
BuyOptionContract(L, sym, occ, notional_hint, note) ==
    IF LatestOptionPrice(occ) <= 0 THEN L
    ELSE FillOptionBuy(L, sym, occ, LatestOptionPrice(occ),
                       Max(1, notional_hint \div (LatestOptionPrice(occ) * OPTION_MULTIPLIER)),
                       notional_hint, note)

StartsWith(str, prefix) ==
    Len(str) >= Len(prefix) /\ SubSeq(str, 1, Len(prefix)) = prefix

\* trade.close_position(p.symbol) of an option position
CloseOption(L, sym, occ) ==
    [L EXCEPT !.acct.cash = @ + DictGet(L.acct.options, occ, 0) * LatestOptionPrice(occ)
                                    * OPTION_MULTIPLIER,
              !.acct.options = DictPop(@, occ),
              !.orders = Append(@, Order(L, "option", sym, occ, SELL,
                                         DictGet(L.acct.options, occ, 0), 0,
                                         LatestOptionPrice(occ), "close_opt", TRUE))]

\* close_all_options_for(symbol): every option position whose identifier
\* starts with the symbol
RECURSIVE CloseOptionLegs(_, _, _)
CloseOptionLegs(L, keys, sym) ==
    IF keys = <<>> THEN L
    ELSE IF StartsWith(Head(keys), Upper(sym))
    THEN CloseOptionLegs(CloseOption(L, sym, Head(keys)), Tail(keys), sym)
    ELSE CloseOptionLegs(L, Tail(keys), sym)

CloseAllOptionsFor(L, sym) == CloseOptionLegs(L, DictKeys(L.acct.options), sym)

\* buy_stock_notional(symbol, notional, note): a refused order raises
BuyStockNotional(L, i, notional, last_px, note) ==
    IF Max(0, notional) <= L.acct.cash
    THEN [L EXCEPT !.acct.cash = @ - Max(0, notional),
                   !.acct.stocks[i] = @ + (Max(0, notional) * QTY_SCALE) \div last_px,
                   !.orders = Append(@, Order(L, "stock", LiveSyms[i], NoOcc, BUY, 0,
                                              Max(0, notional), last_px, note, TRUE))]
    ELSE [L EXCEPT !.raised = TRUE,
                   !.orders = Append(@, Order(L, "stock", LiveSyms[i], NoOcc, BUY, 0,
                                              Max(0, notional), last_px, note, FALSE))]

\* close_stock_all(symbol, note): closing a position the account does not
\* hold raises inside the try and returns False
CloseStockAll(L, i, last_px, note) ==
    IF L.acct.stocks[i] > 0
    THEN [L EXCEPT !.acct.cash = @ + (L.acct.stocks[i] * last_px) \div QTY_SCALE,
                   !.acct.stocks[i] = 0,
                   !.orders = Append(@, Order(L, "stock", LiveSyms[i], NoOcc, SELL,
                                              L.acct.stocks[i], 0, last_px, note, TRUE))]
    ELSE [L EXCEPT !.orders = Append(@, Order(L, "stock", LiveSyms[i], NoOcc, SELL,
                                              0, 0, last_px, note, FALSE))]

\* sma(closes), sd(closes) against last_px, n = len(closes):
\* n*(last_px - sma) and (n*sd)^2
LiveDevN(last_px, closes) == Len(closes) * last_px - SumSeq(closes)
LiveVarNN(closes) ==
    Len(closes) * SumSeq([k \in 1..Len(closes) |-> closes[k] * closes[k]])
        - SumSeq(closes) * SumSeq(closes)
LiveAbsFloorOk(last_px, closes) ==
    \/ SumSeq(closes) <= 0
    \/ 100 * Abs(LiveDevN(last_px, closes)) >= SD_ABS_THRESH_PCT * SumSeq(closes)

above_sma_1sd(last_px, closes) ==
    /\ LiveDevN(last_px, closes) > 0
    /\ LiveDevN(last_px, closes) * LiveDevN(last_px, closes) > LiveVarNN(closes)
    /\ LiveAbsFloorOk(last_px, closes)

below_sma_1sd(last_px, closes) ==
    /\ LiveDevN(last_px, closes) < 0
    /\ LiveDevN(last_px, closes) * LiveDevN(last_px, closes) > LiveVarNN(closes)
    /\ LiveAbsFloorOk(last_px, closes)

\* do_options(call_or_put): sized from the cycle's cash
DoOptions(L, sym, cash_, last_px, call_or_put, note) ==
    IF cash_ > MIN_CASH_USD /\ (cash_ * CASH_INVEST_OPTION_PCT) \div 100 > 0
          /\ PickOptionContract(sym, last_px * TICKS, call_or_put, LiveToday) # NoOcc
    THEN BuyOptionContract(L, sym, PickOptionContract(sym, last_px * TICKS, call_or_put, LiveToday),
                           (cash_ * CASH_INVEST_OPTION_PCT) \div 100, note)
    ELSE L

LiveFalling(w) == LastAll(Moves(w), CONSECUTIVE_PERIODS, -1)
LiveRising(w) == LastAll(Moves(w), CONSECUTIVE_PERIODS, 1)

\* lines 516-520
LiveFallingRule(L, i, cash_, stock_qty, last_px, closes, trend, w) ==
    IF LiveFalling(w) /\ (above_sma_1sd(last_px, closes) \/ trend = -1)
    THEN IF stock_qty > 0
         THEN CloseStockAll(DoOptions(CloseAllOptionsFor(L, LiveSyms[i]), LiveSyms[i], cash_,
                                      last_px, PUT, "put_leg"),
                            i, last_px, "rule3_stock_pct_sell")
         ELSE DoOptions(CloseAllOptionsFor(L, LiveSyms[i]), LiveSyms[i], cash_, last_px, PUT,
                        "put_leg")
    ELSE L

\* lines 522-527
LiveRisingRule(L, i, cash_, last_px, closes, trend, w) ==
    IF LiveRising(w) /\ (below_sma_1sd(last_px, closes) \/ trend = 1)
    THEN IF cash_ > MIN_CASH_USD /\ (cash_ * CASH_INVEST_STOCK_PCT) \div 100 > 0
         THEN BuyStockNotional(DoOptions(CloseAllOptionsFor(L, LiveSyms[i]), LiveSyms[i], cash_,
                                         last_px, CALL, "call_leg"),
                               i, (cash_ * CASH_INVEST_STOCK_PCT) \div 100, last_px,
                               "rule4_stock_buy")
         ELSE DoOptions(CloseAllOptionsFor(L, LiveSyms[i]), LiveSyms[i], cash_, last_px, CALL,
                        "call_leg")
    ELSE L

\* lines 529-530
LiveDecMomRule(L, i, cash_, last_px, w) ==
    IF L.raised \/ ~DecMom(w) THEN L
    ELSE IF LiveRising(w) THEN DoOptions(L, LiveSyms[i], cash_, last_px, CALL, "call_leg")
    ELSE DoOptions(L, LiveSyms[i], cash_, last_px, PUT, "put_leg")

\* lines 532-536
LiveExitRule(L, i, stock_qty, last_px, eod, w) ==
    IF L.raised \/ ~(eod \/ Reversed(Moves(w))) THEN L
    ELSE IF stock_qty > 0
    THEN CloseStockAll(CloseAllOptionsFor(L, LiveSyms[i]), i, last_px, "rule6_exit")
    ELSE CloseAllOptionsFor(L, LiveSyms[i])

\* evaluate_and_trade(sym, cash, stock_qty, last_px, sma21, sd21, sector_trend,
\* evars), with the symbol's price window w and whether the close is near
EvaluateAndTrade(L, i, cash_, stock_qty, last_px, closes, trend, eod, w) ==
    IF Len(Moves(w)) < CONSECUTIVE_PERIODS THEN L
    ELSE LiveExitRule(
            LiveDecMomRule(
                LiveRisingRule(
                    LiveFallingRule(L, i, cash_, stock_qty, last_px, closes, trend, w),
                    i, cash_, last_px, closes, trend, w),
                i, cash_, last_px, w),
            i, stock_qty, last_px, eod, w)

\* update_window(sym, px): a deque of at most N_WINDOW prices; px = 0 is None
UpdateWindow_KeepOldest(w, px) ==
    IF px = 0 \/ Len(w) + 1 > N_WINDOW THEN w ELSE Append(w, px)

UpdateWindow(w, px) ==
    IF px = 0 THEN w
    ELSE IF Len(w) + 1 > N_WINDOW THEN SubSeq(Append(w, px), 2, Len(w) + 1)
    ELSE Append(w, px)

\* ---- the inputs: accounts, option markets, prices ----
\* 0 stands for None (no latest trade); 1 is below MIN_PRICE_USD
LivePrices == {0, 1, 10, 12, 13}

LiveOcc(i, cp, dollars) ==
    OccSymbolLive(LiveSyms[i], NextFridayAfterTomorrow(LiveToday), cp, dollars * TICKS)

\* The option market of the day: every contract near the money trades at one
\* price with ample volume, or none trades.
LiveMarket(px) ==
    IF px = 0 THEN {}
    ELSE {[date |-> LiveToday, occ |-> LiveOcc(i, cp, dollars), open |-> px, close |-> px,
           volume |-> 2 * MIN_OPTIONS_VOL]
              : i \in 1..Len(LiveSyms), cp \in {CALL, PUT}, dollars \in {10, 11, 12}}

\* An account at the start, the option market of the day (px), the day's
\* sector trend and daily closes (no bars, or one close), and the number of
\* priority symbols get_priority_symbols() returns (a prefix of LiveSyms).
\* The legs an account holds at the start: none, or a CALL and a PUT of the
\* first symbol and a CALL of the second.
LiveLegs(held) ==
    IF held
    THEN <<[occ |-> LiveOcc(1, CALL, 10), qty |-> 1], [occ |-> LiveOcc(1, PUT, 10), qty |-> 1],
           [occ |-> LiveOcc(2, CALL, 10), qty |-> 1]>>
    ELSE <<>>

LiveAccounts ==
    { [cash0 |-> 100000, plain |-> 0,  cp |-> 0,  legs |-> TRUE,  stock |-> 0,    px |-> 3,
       trend |-> 1,  closes |-> <<11>>, nsyms |-> 2],
      [cash0 |-> 100000, plain |-> 24, cp |-> 0,  legs |-> FALSE, stock |-> 0,    px |-> 3,
       trend |-> 1,  closes |-> <<11>>, nsyms |-> 2],
      [cash0 |-> 100000, plain |-> 0,  cp |-> 25, legs |-> FALSE, stock |-> 0,    px |-> 0,
       trend |-> 1,  closes |-> <<11>>, nsyms |-> 1],
      [cash0 |-> 100000, plain |-> 25, cp |-> 0,  legs |-> FALSE, stock |-> 0,    px |-> 3,
       trend |-> 1,  closes |-> <<11>>, nsyms |-> 1],
      [cash0 |-> 1000,   plain |-> 0,  cp |-> 0,  legs |-> FALSE, stock |-> 5000, px |-> 50,
       trend |-> 1,  closes |-> <<11>>, nsyms |-> 1],
      [cash0 |-> 50,     plain |-> 0,  cp |-> 0,  legs |-> FALSE, stock |-> 0,    px |-> 3,
       trend |-> 1,  closes |-> <<11>>, nsyms |-> 1],
      [cash0 |-> 100000, plain |-> 0,  cp |-> 0,  legs |-> TRUE,  stock |-> 5000, px |-> 3,
       trend |-> -1, closes |-> <<11>>, nsyms |-> 1],
      [cash0 |-> 100000, plain |-> 0,  cp |-> 0,  legs |-> FALSE, stock |-> 0,    px |-> 3,
       trend |-> 0,  closes |-> <<>>,   nsyms |-> 1],
      [cash0 |-> 100000, plain |-> 0,  cp |-> 0,  legs |-> FALSE, stock |-> 0,    px |-> 3,
       trend |-> 0,  closes |-> <<11>>, nsyms |-> 1] }

NoPositions ==
    [stocks |-> [i \in 1..Len(LiveSyms) |-> 0], plain |-> 0, cp |-> 0, options |-> <<>>]

LiveInit ==
    \E a \in LiveAccounts :
        /\ daily = [trend |-> a.trend, closes |-> a.closes, nsyms |-> a.nsyms]
        /\ acct = [cash |-> a.cash0,
                   stocks |-> [i \in 1..Len(LiveSyms) |-> IF i = 1 THEN a.stock ELSE 0],
                   plain |-> a.plain, cp |-> a.cp, options |-> LiveLegs(a.legs)]
        /\ options_csv = LiveMarket(a.px)
        /\ orders = <<>>
        /\ price_windows = [i \in 1..Len(LiveSyms) |-> <<>>]
        /\ cyc = [n |-> 0, cash |-> 0, positions |-> NoPositions, i |-> 0]
        /\ lpc = "poll"

LiveIdle ==
    /\ acct = [cash |-> 0] @@ NoPositions
    /\ daily = [trend |-> 0, closes |-> <<>>, nsyms |-> 0]
    /\ orders = <<>>
    /\ price_windows = [i \in 1..Len(LiveSyms) |-> <<>>]
    /\ cyc = [n |-> 0, cash |-> 0, positions |-> NoPositions, i |-> 0]
    /\ lpc = "idle"

\* The top of the while loop, lines 567-574: read the account, and sleep
\* through the cycle when the cash floor or the position cap is hit.
LivePoll ==
    /\ lpc = "poll"
    /\ cyc.n * daily.nsyms < MaxCycles * Len(LiveSyms)
    /\ cyc' = [n |-> cyc.n + 1, cash |-> GetCashAndPositions.cash,
               positions |-> GetCashAndPositions.positions, i |-> 1]
    /\ lpc' = IF GetCashAndPositions.cash < MIN_CASH_USD
                  \/ StockPosSyms(GetCashAndPositions.positions) >= MAX_OPEN_POSITIONS
              THEN "poll" ELSE "syms"
    /\ UNCHANGED <<acct, orders, price_windows, daily, options_csv,
                   lifovars, expvars, occvars, pickvars, btvars, thrvars, longvars, winvars>>

\* The effect of one iteration of the for loop that reaches evaluate_and_trade.
LiveTraded(L) ==
    /\ acct' = L.acct
    /\ orders' = L.orders
    /\ IF L.raised \/ cyc.i = daily.nsyms
       THEN lpc' = "poll" /\ cyc' = cyc
       ELSE lpc' = "syms" /\ cyc' = [cyc EXCEPT !.i = @ + 1]

\* One iteration of the for loop, lines 576-596, for the symbol cyc.i. A raise
\* ends the cycle in the except branch of line 600.
LiveSymbol ==
    /\ lpc = "syms"
    /\ \E last_px \in LivePrices, eod \in BOOLEAN :
          IF last_px = 0 \/ last_px < MIN_PRICE_USD
          THEN /\ price_windows' = price_windows
               /\ LiveTraded([acct |-> acct, orders |-> orders, raised |-> FALSE])
          ELSE /\ price_windows' = [price_windows EXCEPT ![cyc.i] = UpdateWindow(@, last_px)]
               /\ IF daily.closes = <<>>
                  THEN LiveTraded([acct |-> acct, orders |-> orders, raised |-> FALSE])
                  ELSE LiveTraded(EvaluateAndTrade(
                           [acct |-> acct, orders |-> orders, raised |-> FALSE],
                           cyc.i, cyc.cash, cyc.positions.stocks[cyc.i], last_px, daily.closes,
                           daily.trend, eod, UpdateWindow(price_windows[cyc.i], last_px)))
    /\ UNCHANGED <<daily, options_csv, lifovars, expvars, occvars, pickvars, btvars, thrvars, longvars, winvars>>

LiveNext == LivePoll \/ LiveSymbol

(***************************************************************************)
(*   The price window and the trend flags: backtest_options.py lines       *)
(*   309-319, scripts/trading_engine.py update_window, recent_moves and    *)
(*   evaluate_and_trade lines 482-489                                      *)
(***************************************************************************)
MaxObs == 7
\* 0 stands for None (update_window only); the Backtester reads a close on
\* every bar.
ObsValues == {0, 10, 11, 12, 13}
ConsecValues == 1..3

\* rising, falling of lines 318-319 and 488-489 for K = k
TrendFlags(w, k) ==
    [rising |-> LastAll(Moves(w), k, 1), falling |-> LastAll(Moves(w), k, -1)]

WinInit ==
    /\ seen = <<>>
    /\ consec \in ConsecValues
    /\ bt_win = <<>>
    /\ live_win = <<>>
    /\ flags = [bt |-> TrendFlags(<<>>, consec), live |-> TrendFlags(<<>>, consec)]
    /\ wpc = "feed"

WinIdle ==
    /\ seen = <<>>
    /\ consec = 0
    /\ bt_win = <<>>
    /\ live_win = <<>>
    /\ flags = [bt |-> None, live |-> None]
    /\ wpc = "off"

\* One observation: a bar of Backtester.run (a price) and a poll of the live
\* engine (a price or None) update their windows and compute the flags.
Observe ==
    /\ wpc = "feed"
    /\ Len(seen) < MaxObs
    /\ \E px \in ObsValues :
          /\ seen' = Append(seen, px)
          /\ bt_win' = IF px = 0 THEN bt_win ELSE PushWindowFor(consec, bt_win, px)
          /\ live_win' = UpdateWindow(live_win, px)
          /\ flags' = [bt |-> IF px = 0 THEN flags.bt
                               ELSE TrendFlags(PushWindowFor(consec, bt_win, px), consec),
                       live |-> TrendFlags(UpdateWindow(live_win, px), consec)]
    /\ UNCHANGED <<consec, wpc, options_csv, lifovars, expvars, occvars, pickvars, btvars,
                   livevars, thrvars, longvars>>

WinNext == Observe

(***************************************************************************)
(*   services/trading_engine.py: TradingEngine.start_trading/stop_trading  *)
(***************************************************************************)
MaxUiCalls == 4
MaxLoopCycles == 2

\* threading.Thread.is_alive()
IsAlive(t) == threads[t].at # "dead"

ThrInit ==
    /\ is_running = FALSE
    /\ trading_thread = 0
    /\ threads = <<>>
    /\ ui = [at |-> "idle", calls |-> 0]

ThrIdle ==
    /\ is_running = FALSE
    /\ trading_thread = 0
    /\ threads = <<>>
    /\ ui = [at |-> "off", calls |-> 0]

\* start_trading(): returns when is_running is set, else sets it and starts a
\* new thread on _run_trading_loop.
StartTrading ==
    /\ ui.at = "idle" /\ ui.calls < MaxUiCalls
    /\ ui' = [ui EXCEPT !.calls = @ + 1]
    /\ IF is_running
       THEN UNCHANGED <<is_running, trading_thread, threads, longvars, winvars>>
       ELSE /\ is_running' = TRUE
            /\ threads' = Append(threads, [at |-> "check", cycles |-> 0])
            /\ trading_thread' = Len(threads) + 1
    /\ UNCHANGED <<lifovars, expvars, occvars, options_csv, pickvars, btvars, livevars, longvars, winvars>>

\* stop_trading() up to the join: clears is_running and, when the last thread
\* is alive, waits for it.
StopTrading ==
    /\ ui.at = "idle" /\ ui.calls < MaxUiCalls
    /\ is_running' = FALSE
    /\ ui' = [at |-> IF trading_thread # 0 /\ IsAlive(trading_thread) THEN "joining" ELSE "idle",
              calls |-> ui.calls + 1]
    /\ UNCHANGED <<trading_thread, threads, longvars, winvars>>
    /\ UNCHANGED <<lifovars, expvars, occvars, options_csv, pickvars, btvars, livevars, longvars, winvars>>

\* self.trading_thread.join(timeout=5.0) returns: the thread has ended, or the
\* 5 seconds have passed while it sleeps between cycles (30 s) or runs a cycle.
JoinReturns ==
    /\ ui.at = "joining"
    /\ threads[trading_thread].at \in {"dead", "sleep", "cycle"}
    /\ ui' = [ui EXCEPT !.at = "idle"]
    /\ UNCHANGED <<is_running, trading_thread, threads, longvars, winvars>>
    /\ UNCHANGED <<lifovars, expvars, occvars, options_csv, pickvars, btvars, livevars, longvars, winvars>>

\* _trading_loop: while self.is_running
LoopTest(t) ==
    /\ threads[t].at = "check"
    /\ threads' = [threads EXCEPT ![t].at = IF is_running THEN "cycle" ELSE "dead"]
    /\ UNCHANGED <<is_running, trading_thread, ui, longvars, winvars>>
    /\ UNCHANGED <<lifovars, expvars, occvars, options_csv, pickvars, btvars, livevars, longvars, winvars>>

\* await self._execute_trading_cycle() ends (or raises), the loop sleeps
LoopCycle(t) ==
    /\ threads[t].at = "cycle"
    /\ threads' = [threads EXCEPT ![t].at = "sleep",
                                  ![t].cycles = Min(MaxLoopCycles, @ + 1)]
    /\ UNCHANGED <<is_running, trading_thread, ui, longvars, winvars>>
    /\ UNCHANGED <<lifovars, expvars, occvars, options_csv, pickvars, btvars, livevars, longvars, winvars>>

\* await asyncio.sleep(...) ends
LoopWake(t) ==
    /\ threads[t].at = "sleep"
    /\ threads' = [threads EXCEPT ![t].at = "check"]
    /\ UNCHANGED <<is_running, trading_thread, ui, longvars, winvars>>
    /\ UNCHANGED <<lifovars, expvars, occvars, options_csv, pickvars, btvars, livevars, longvars, winvars>>

ThrNext ==
    \/ StartTrading
    \/ StopTrading
    \/ JoinReturns
    \/ \E t \in 1..Len(threads) : LoopTest(t)
    \/ \E t \in 1..Len(threads) : LoopCycle(t)
    \/ \E t \in 1..Len(threads) : LoopWake(t)

(***************************************************************************)
(*            trading_engine.py: the long-only polling engine              *)
(***************************************************************************)
\* percent, and per mille for the stop loss
BUY_PCT_OF_CASH == 25
STOP_LOSS_PCT == 15
TAKE_PROFIT_PCT == 3
LONG_MAX_OPEN_POSITIONS == 10
N_CONSEC == 2
LONG_N_WINDOW == 5

MaxLongCycles == 6

\* get_priority_symbols(): one watched symbol
LongSym == "XOM"

\* check_reversal_signal(sym, last_px) after dq.append(last_px): dq is the
\* window with the price appended
ReversalSignal(dq) ==
    /\ Len(dq) >= N_CONSEC + 1
    /\ Len(Moves(dq)) >= N_CONSEC + 1
    /\ \/ /\ \A k \in (Len(Moves(dq)) - N_CONSEC)..(Len(Moves(dq)) - 1) : Moves(dq)[k] = 1
          /\ Moves(dq)[Len(Moves(dq))] = -1
       \/ /\ \A k \in (Len(Moves(dq)) - N_CONSEC)..(Len(Moves(dq)) - 1) : Moves(dq)[k] = -1
          /\ Moves(dq)[Len(Moves(dq))] = 1

\* deque(maxlen=N_WINDOW).append
LongAppend(dq, px) ==
    IF Len(dq) + 1 > LONG_N_WINDOW THEN SubSeq(Append(dq, px), 2, Len(dq) + 1)
    ELSE Append(dq, px)

\* base = (window.get(s) or [last_px])[0]
Base(dq, last_px) == IF dq # <<>> THEN dq[1] ELSE last_px

\* last_px >= base * (1.0 + TAKE_PROFIT_PCT)
TakeProfit(dq, last_px) == 100 * last_px >= (100 + TAKE_PROFIT_PCT) * Base(dq, last_px)
\* last_px <= base * (1.0 - STOP_LOSS_PCT)
StopLoss(dq, last_px) == 1000 * last_px <= (1000 - STOP_LOSS_PCT) * Base(dq, last_px)

\* len(positions): the positions the account holds
LongPositions(a) == (IF a.qty > 0 THEN 1 ELSE 0) + a.others

LongOrder(side, note, notional, last_px, accepted) ==
    [symbol |-> LongSym, side |-> side, note |-> note, notional |-> notional,
     last_px |-> last_px, accepted |-> accepted, cycle |-> lo_cyc.n + 1]

\* buy_market_notional(s, notional, last_px, note="entry"); the broker fills
\* the order when the cash covers it, else submit_order raises
LongBuy(a, notional, last_px) ==
    IF notional <= a.cash
    THEN [a EXCEPT !.cash = @ - notional, !.qty = @ + (notional * QTY_SCALE) \div last_px]
    ELSE a

\* sell_market_all(s, note, pos_map): trade.close_position, 100 percent
LongSell(a, last_px) ==
    [a EXCEPT !.cash = @ + (a.qty * last_px) \div QTY_SCALE, !.qty = 0]

\* The for loop body of lines 197-213 for the watched symbol.
LongSymbolStep(last_px) ==
    IF last_px = 0 \/ last_px < MIN_PRICE_USD
    THEN UNCHANGED <<lo_acct, lo_orders, window>>
    ELSE IF ~(lo_acct.qty > 0)
    THEN /\ window' = LongAppend(window, last_px)
         /\ IF ReversalSignal(LongAppend(window, last_px))
            THEN /\ lo_acct' = LongBuy(lo_acct, (lo_acct.cash * BUY_PCT_OF_CASH) \div 100, last_px)
                 /\ lo_orders' = Append(lo_orders,
                        LongOrder(BUY, "entry", (lo_acct.cash * BUY_PCT_OF_CASH) \div 100,
                                  last_px, TRUE))
            ELSE UNCHANGED <<lo_acct, lo_orders>>
    ELSE /\ window' = window
         /\ IF TakeProfit(window, last_px)
            THEN /\ lo_acct' = LongSell(lo_acct, last_px)
                 /\ lo_orders' = Append(lo_orders, LongOrder(SELL, "tp", 0, last_px, TRUE))
            ELSE IF StopLoss(window, last_px)
            THEN /\ lo_acct' = LongSell(lo_acct, last_px)
                 /\ lo_orders' = Append(lo_orders, LongOrder(SELL, "sl", 0, last_px, TRUE))
            ELSE UNCHANGED <<lo_acct, lo_orders>>

\* The end-of-day branch of lines 180-188: every position of the account is
\* closed.
LongLiquidate(last_px) ==
    /\ window' = window
    /\ lo_acct' = [LongSell(lo_acct, last_px) EXCEPT !.others = 0]
    /\ lo_orders' = IF lo_acct.qty > 0
                    THEN Append(lo_orders, LongOrder(SELL, "eod_exit", 0, last_px, TRUE))
                    ELSE lo_orders

\* 0 stands for None; 1 is below MIN_PRICE_USD
LongPrices == {0, 1, 10, 11, 12}

LongAccounts ==
    { [cash |-> 100000, qty |-> 0, others |-> 0],
      [cash |-> 100000, qty |-> 0, others |-> 9],
      [cash |-> 100000, qty |-> 0, others |-> 10],
      [cash |-> 120,    qty |-> 0, others |-> 0],
      [cash |-> 50,     qty |-> 5000, others |-> 0] }

LongInit ==
    /\ lo_acct \in LongAccounts
    /\ lo_orders = <<>>
    /\ window = <<>>
    /\ lo_cyc = [n |-> 0, eod |-> FALSE, px |-> 0, failed |-> FALSE]
    /\ running = TRUE
    /\ lo_pc = "loop"
    /\ clients = 1

LongIdle ==
    /\ lo_acct = [cash |-> 0, qty |-> 0, others |-> 0]
    /\ lo_orders = <<>>
    /\ window = <<>>
    /\ lo_cyc = [n |-> 0, eod |-> FALSE, px |-> 0, failed |-> FALSE]
    /\ running = FALSE
    /\ lo_pc = "off"
    /\ clients = 0

\* One iteration of the while loop of main(), lines 178-221, with the time of
\* day and the latest trade price it meets, or with get_cash_and_positions()
\* raising (lines 182, 191): the except branch of lines 219-221 prints and
\* sleeps, trade and data_client stay the objects built at import.
LongCycle ==
    /\ lo_pc = "loop" /\ running
    /\ lo_cyc.n < MaxLongCycles
    /\ \E eod \in BOOLEAN, last_px \in LongPrices, failed \in BOOLEAN :
          /\ lo_cyc' = [n |-> lo_cyc.n + 1, eod |-> eod, px |-> last_px, failed |-> failed]
          /\ IF failed THEN UNCHANGED <<lo_acct, lo_orders, window>>
             ELSE IF eod THEN LongLiquidate(last_px)
             ELSE IF lo_acct.cash < MIN_CASH_USD
                        \/ LongPositions(lo_acct) >= LONG_MAX_OPEN_POSITIONS
             THEN UNCHANGED <<lo_acct, lo_orders, window>>
             ELSE LongSymbolStep(last_px)
    /\ UNCHANGED <<running, lo_pc, clients>>
    /\ UNCHANGED <<lifovars, expvars, occvars, options_csv, pickvars, btvars, livevars, thrvars, winvars>>

\* handle_sigint(sig, frame)
LongSigint ==
    /\ lo_pc = "loop" /\ running
    /\ running' = FALSE
    /\ UNCHANGED <<lo_acct, lo_orders, window, lo_cyc, lo_pc, clients>>
    /\ UNCHANGED <<lifovars, expvars, occvars, options_csv, pickvars, btvars, livevars, thrvars, winvars>>

\* while running: the test fails and main() returns
LongStopped ==
    /\ lo_pc = "loop" /\ ~running
    /\ lo_pc' = "stopped"
    /\ UNCHANGED <<lo_acct, lo_orders, window, lo_cyc, running, clients>>
    /\ UNCHANGED <<lifovars, expvars, occvars, options_csv, pickvars, btvars, livevars, thrvars, winvars>>

LongNext == LongCycle \/ LongSigint \/ LongStopped

(***************************************************************************)
(*                             Specifications                              *)
(***************************************************************************)
Init == BtInit /\ LifoIdle /\ ExpIdle /\ OccIdle /\ PickIdle /\ LiveIdle /\ ThrIdle /\ LongIdle /\ WinIdle
Spec == Init /\ [][Next]_vars

\* run() is not suspended: once called it runs to its return or its exception.
\* Its closes are drawn from two values: rises, falls and flat bars.
InitFair == BtInitOver({100, 101}) /\ LifoIdle /\ ExpIdle /\ OccIdle /\ PickIdle /\ LiveIdle /\ ThrIdle /\ LongIdle /\ WinIdle
FairSpec == InitFair /\ [][Next]_vars /\ WF_vars(Next)

InitLifo == LifoInit /\ ExpIdle /\ OccIdle /\ PickIdle /\ NoOptionData /\ BtIdle /\ LiveIdle /\ ThrIdle /\ LongIdle /\ WinIdle
SpecLifo == InitLifo /\ [][LifoNext]_vars

InitExpiry == ExpInit /\ LifoIdle /\ OccIdle /\ PickIdle /\ NoOptionData /\ BtIdle /\ LiveIdle /\ ThrIdle /\ LongIdle /\ WinIdle
SpecExpiry == InitExpiry /\ [][ExpNext]_vars

InitOcc == OccInit /\ LifoIdle /\ ExpIdle /\ PickIdle /\ NoOptionData /\ BtIdle /\ LiveIdle /\ ThrIdle /\ LongIdle /\ WinIdle
SpecOcc == InitOcc /\ [][OccNext]_vars

InitPick == PickInit /\ LifoIdle /\ ExpIdle /\ OccIdle /\ BtIdle /\ LiveIdle /\ ThrIdle /\ LongIdle /\ WinIdle
SpecPick == InitPick /\ [][PickNext]_vars

InitLive == LiveInit /\ LifoIdle /\ ExpIdle /\ OccIdle /\ PickIdle /\ BtIdle /\ ThrIdle /\ LongIdle /\ WinIdle
SpecLive == InitLive /\ [][LiveNext]_vars

InitThreads == ThrInit /\ LifoIdle /\ ExpIdle /\ OccIdle /\ PickIdle /\ NoOptionData /\ BtIdle /\ LiveIdle /\ LongIdle /\ WinIdle
SpecThreads == InitThreads /\ [][ThrNext]_vars

InitLong == LongInit /\ LifoIdle /\ ExpIdle /\ OccIdle /\ PickIdle /\ NoOptionData /\ BtIdle /\ LiveIdle /\ ThrIdle /\ WinIdle
SpecLong == InitLong /\ [][LongNext]_vars

\* The windows and flags alone.
InitWindow == WinInit /\ LifoIdle /\ ExpIdle /\ OccIdle /\ PickIdle /\ NoOptionData /\ BtIdle /\ LiveIdle /\ ThrIdle /\ LongIdle
SpecWindow == InitWindow /\ [][WinNext]_vars

(***************************************************************************)
(*                 Claims about calculate_lifo_pnl (C2 - C5)               *)
(***************************************************************************)
\* The fills of a history in chronological order.
Chrono(tx) == LET o == SortByDate(tx, [i \in 1..Len(tx) |-> i], FALSE)
              IN  [k \in 1..Len(tx) |-> tx[o[k]]]

\* The LotStack of the specification: fills applied in chronological order, a
\* buy pushes a lot, a sell pops from the most recent lot open at that time.
RECURSIVE RefPop(_, _, _)
RefPop(stack, qty, cost) ==
    IF qty > 0 /\ stack # <<>>
    THEN LET top == stack[Len(stack)]
             rest == SubSeq(stack, 1, Len(stack) - 1)
         IN  IF top.quantity <= qty
             THEN RefPop(rest, qty - top.quantity, cost + top.quantity * top.price)
             ELSE RefPop(Append(rest, [top EXCEPT !.quantity = @ - qty]), 0,
                         cost + qty * top.price)
    ELSE [stack |-> stack, qty |-> qty, cost |-> cost]

RECURSIVE RefLifo(_, _, _, _)
RefLifo(fills, stack, costs, oversold) ==
    IF fills = <<>>
    THEN [stack |-> stack, costs |-> costs, oversold |-> oversold]
    ELSE LET f == Head(fills)
         IN  IF f.side = "buy"
             THEN RefLifo(Tail(fills),
                          Append(stack, [quantity |-> f.quantity, price |-> f.price]),
                          costs, oversold)
             ELSE LET r == RefPop(stack, f.quantity, 0)
                  IN  RefLifo(Tail(fills), r.stack, Append(costs, r.cost),
                              oversold \/ r.qty > 0)

Ref(tx) == RefLifo(Chrono(tx), <<>>, <<>>, FALSE)

\* No sell exceeds the quantity open at its time.
NoOverSell(tx) == ~Ref(tx).oversold

SideQty(tx, sd) ==
    SumSeq([i \in 1..Len(tx) |-> IF tx[i].side = sd THEN tx[i].quantity ELSE 0])
SideAmount(tx, sd) ==
    SumSeq([i \in 1..Len(tx) |-> IF tx[i].side = sd THEN tx[i].quantity * tx[i].price ELSE 0])
StackQty(st) == SumSeq([k \in 1..Len(st) |-> st[k].quantity])
StackCost(st) == SumSeq([k \in 1..Len(st) |-> st[k].quantity * st[k].price])

Returned == lifo_calls > 0 /\ lifo_ret # None

\* C2 (as claimed): every sell is charged the cost of the most recently bought
\* lots that were open at the time of that sell; a sell is never matched against
\* a lot bought after it.
C2_LifoConsumptionOrder ==
    (Returned /\ NoOverSell(lifo_given))
        => lifo_locals.sell_cost_basis = Ref(lifo_given).costs

\* C3: for a history without over-sell, realized + unrealized P&L equals
\* (sell proceeds - cost of the consumed lots) + (mark x remaining quantity -
\* remaining cost basis), whichever lots were split while matching: the total is
\* sell proceeds - all buy cost + mark x net open quantity.
C3_LifoPnlIdentity ==
    (Returned /\ NoOverSell(lifo_given)) =>
        LET ref == Ref(lifo_given)
            proceeds == SideAmount(lifo_given, "sell")
            total == lifo_ret.realized_pnl + lifo_ret.unrealized_pnl
        IN  /\ total = (proceeds - SumSeq(ref.costs))
                       + (current_price * StackQty(ref.stack) - StackCost(ref.stack))
            /\ total = proceeds - SideAmount(lifo_given, "buy")
                       + current_price * (SideQty(lifo_given, "buy") - SideQty(lifo_given, "sell"))
            /\ lifo_ret.total_pnl = total

\* C3 witness: a call on a history without over-sell in which a sell split a lot
\* and part of the position is still open.
C3_Witness ==
    /\ Returned /\ NoOverSell(lifo_given)
    /\ SideQty(lifo_given, "sell") > 0
    /\ lifo_ret.remaining_quantity > 0
    /\ \E i \in 1..Len(transactions) :
          /\ transactions[i].side = "buy"
          /\ transactions[i].quantity < lifo_given[i].quantity

\* C4 (as claimed): a sell that exceeds the open buy lots produces an error
\* outcome and leaves the lots and the reported P&L untouched.
C4_OverSellSurfaced ==
    (lifo_calls = 1 /\ ~NoOverSell(lifo_given)) =>
        /\ lifo_locals.raised
        /\ lifo_ret = None
        /\ transactions = lifo_given

\* C5: after a call on a history without over-sell the open lots sum to
\* bought - sold, which is also the reported remaining_quantity, and neither a
\* lot nor the sum is negative.
C5_OpenLotInvariant ==
    (Returned /\ NoOverSell(lifo_given)) =>
        /\ lifo_ret.remaining_quantity
              = SideQty(lifo_given, "buy") - SideQty(lifo_given, "sell")
        /\ lifo_ret.remaining_quantity = StackQty(lifo_locals.lots)
        /\ lifo_ret.remaining_quantity >= 0
        /\ \A k \in 1..Len(lifo_locals.lots) : lifo_locals.lots[k].quantity >= 0

\* C5 witness: a call on a history with two buys and a sell that leaves lots open.
C5_Witness ==
    /\ Returned /\ NoOverSell(lifo_given)
    /\ Len(lifo_given) = 3
    /\ SideQty(lifo_given, "sell") > 0
    /\ Len(lifo_locals.lots) = 2
    /\ lifo_ret.remaining_quantity = SideQty(lifo_given, "buy") - SideQty(lifo_given, "sell")


(***************************************************************************)
(*                     Claims about the expiry rule (C8)                   *)
(***************************************************************************)
ExpiryRule(d, e) ==
    /\ Weekday(e) = 4
    /\ e > d + 2
    /\ \A f \in (d + 3)..(e - 1) : Weekday(f) # 4
    /\ 3 <= e - d /\ e - d <= 9
    /\ (Weekday(d) = 2 => e = d + 9)

\* C8: both expiry functions return the same date e for a decision date d; e is
\* a Friday strictly later than d + 2 with no Friday strictly between d + 2 and
\* e, so 3 <= e - d <= 9, and for a Wednesday e = d + 9.
C8_ExpiryRule ==
    /\ (exp_bt # 0 => ExpiryRule(exp_d, exp_bt))
    /\ (exp_live # 0 => ExpiryRule(exp_d, exp_live))
    /\ (exp_bt # 0 /\ exp_live # 0 => exp_bt = exp_live)

\* C8 witness: both functions were called for a Wednesday and answered the
\* Friday nine days later.
C8_Witness ==
    /\ Weekday(exp_d) = 2
    /\ exp_bt = exp_d + 9
    /\ exp_live = exp_d + 9


(***************************************************************************)
(*                       Claims about occ_symbol (C9)                      *)
(***************************************************************************)
DigitVal(c) == (CHOOSE k \in 1..10 : DIGITS[k] = c) - 1

RECURSIVE Number(_)
Number(ds) == IF ds = <<>> THEN 0
              ELSE 10 * Number(SubSeq(ds, 1, Len(ds) - 1)) + DigitVal(ds[Len(ds)])

\* The decoder the round trip speaks of: the identifier's last 15 characters
\* are YYMMDD, the right and the strike in 1/1000 dollar, the rest the underlying.
Decode(occ) ==
    LET n == Len(occ)
    IN  [under |-> SubSeq(occ, 1, n - 15),
         yy |-> Number(SubSeq(occ, n - 14, n - 13)),
         mm |-> Number(SubSeq(occ, n - 12, n - 11)),
         dd |-> Number(SubSeq(occ, n - 10, n - 9)),
         cp |-> IF occ[n - 8] = "C" THEN CALL ELSE PUT,
         strike |-> Number(SubSeq(occ, n - 7, n)) * 10]

RefFields(ref) ==
    [under |-> ref.under,
     yy |-> Ymd(ref.expiry).year % 100,
     mm |-> Ymd(ref.expiry).month,
     dd |-> Ymd(ref.expiry).day,
     cp |-> ref.cp,
     strike |-> ref.strike]

RoundTrips(k) ==
    /\ Len(occ_id[k]) = Len(occ_ref[k].under) + 15
    /\ Decode(occ_id[k]) = RefFields(occ_ref[k])
    /\ InRightSlice("C", Upper(occ_ref[k].under), occ_id[k]) <=> occ_ref[k].cp = CALL
    /\ InRightSlice("P", Upper(occ_ref[k].under), occ_id[k]) <=> occ_ref[k].cp = PUT

Encoded(k) == occ_id # <<>> /\ occ_id[k] # <<>>
UpperCase(k) == Upper(occ_ref[k].under) = occ_ref[k].under

\* C9 (as claimed): over refs with an alphabetic underlying, occ_symbol decodes
\* back to the ref's fields, the right read back by Backtester.run is the encoded
\* right, and two refs get the same identifier exactly when they are the same ref.
C9_RoundTripAnyCase ==
    /\ \A k \in 1..2 : Encoded(k) => RoundTrips(k)
    /\ (Encoded(1) /\ Encoded(2)) => ((occ_id[1] = occ_id[2]) <=> (occ_ref[1] = occ_ref[2]))

\* C9 (amended): the same, over refs whose underlying is in upper case, the form
\* occ_symbol itself normalises to.
C9_RoundTrip ==
    /\ \A k \in 1..2 : (Encoded(k) /\ UpperCase(k)) => RoundTrips(k)
    /\ (Encoded(1) /\ Encoded(2) /\ UpperCase(1) /\ UpperCase(2))
          => ((occ_id[1] = occ_id[2]) <=> (occ_ref[1] = occ_ref[2]))

\* C9 witness: two different upper-case refs that differ only in the right, both
\* encoded, the underlying itself containing the letters C and P.
C9_Witness ==
    /\ Encoded(1) /\ Encoded(2)
    /\ occ_ref[1].under = <<"P", "C", "C">>
    /\ occ_ref[2] = [occ_ref[1] EXCEPT !.cp = PUT]
    /\ occ_ref[1].cp = CALL
    /\ occ_id[1] # occ_id[2]
    /\ RoundTrips(1) /\ RoundTrips(2)


(***************************************************************************)
(*                 Claims about the contract selection (C10)               *)
(***************************************************************************)
\* The candidate strikes of a probe whose bar of the day has volume >= the floor.
Qualifying(cands, occOf(_)) ==
    {k \in 1..Len(cands) :
        LET bar == GetDayBar(occOf(cands[k].strike), pick_in.day)
        IN  bar # None /\ bar.volume >= MIN_OPTIONS_VOL}

\* The returned identifier is that of a qualifying candidate at the smallest
\* distance from the target, and of the lowest strike among those at that distance.
SelectionRule(ret, cands, occOf(_)) ==
    ret # NoOcc =>
        \E k \in Qualifying(cands, occOf) :
            /\ occOf(cands[k].strike) = ret
            /\ \A j \in Qualifying(cands, occOf) :
                  /\ cands[k].dist <= cands[j].dist
                  /\ (cands[j].dist = cands[k].dist => cands[k].strike <= cands[j].strike)

BtOccOf(k) == OccSymbol(symbol, NextFridayAfterTPlus2(pick_in.day),
                        IF pick_in.cp = CALL THEN <<"C">> ELSE <<"P">>, k)
LiveOccOf(k) == OccSymbolLive(symbol, NextFridayAfterTomorrow(pick_in.day), pick_in.cp, k)

\* C10 (as claimed): the contract returned by pick_occ / pick_option_contract
\* has volume >= the minimum, is nearest to the target among the qualifying
\* candidates, and is the lower strike when two of them are equally distant.
C10_SelectionRule ==
    /\ pick_bt.called =>
          SelectionRule(pick_bt.occ, BtCandidates(pick_in.last_px, pick_in.cp = CALL), BtOccOf)
    /\ pick_live.called =>
          SelectionRule(pick_live.occ, LiveCandidates(pick_in.last_px, pick_in.cp = CALL), LiveOccOf)

(***************************************************************************)
(*                     Claims about Backtester.run                         *)
(***************************************************************************)
IsStockRow(t) == t.asset = STOCK
IsOptionRow(t) == t.asset # STOCK

\* The rows a step appends to the ledger.
NewRows == (Len(ledger) + 1)..Len(ledger')

\* C1: the stock rows that the rules of bar T append to the ledger (the rising
\* rule's buy, the reversal rule's sell) are dated bar T+1 and priced at bar
\* T+1's open; rows already in the ledger are left as they are.
C1_NoLookaheadStock ==
    [][ /\ Len(ledger') >= Len(ledger)
        /\ SubSeq(ledger', 1, Len(ledger)) = ledger
        /\ \A k \in NewRows :
              IsStockRow(ledger'[k]) =>
                  /\ pc = "loop" /\ loop_i < NBars
                  /\ ledger'[k].date = df[DayIdx(loop_i + 1)].date
                  /\ ledger'[k].price = df[DayIdx(loop_i + 1)].open
                  /\ ledger'[k].price # df[DayIdx(loop_i)].close ]_vars

\* C1 witness: a run whose ledger holds a stock buy and, on a later bar, a
\* stock sell.
C1_Witness ==
    \E j, k \in 1..Len(ledger) :
        /\ j < k
        /\ IsStockRow(ledger[j]) /\ ledger[j].side = BUY
        /\ IsStockRow(ledger[k]) /\ ledger[k].side = SELL
        /\ ledger[j].date < ledger[k].date

\* C6: at every point of a run, cash >= 0, qty_stock >= 0, every contract held
\* in pos.options has a count >= 1, and every equity point is >= 0.
C6_NonNegative ==
    pc # "idle" =>
        /\ cash >= 0
        /\ pos.qty_stock >= 0
        /\ \A k \in 1..Len(pos.options) : pos.options[k].qty >= 1
        /\ \A k \in 1..Len(equity_series) : equity_series[k][2] >= 0

\* C6 witness: a finished run that bought stock and options, sold a contract
\* down to zero (it is gone from pos.options) and recorded its equity points.
C6_Witness ==
    /\ pc = "done"
    /\ Len(equity_series) = NBars
    /\ pos.qty_stock > 0
    /\ \E k \in 1..Len(ledger) :
          /\ IsOptionRow(ledger[k]) /\ ledger[k].side = SELL
          /\ ~DictHas(pos.options, ledger[k].asset)

\* C7 (as claimed): every option row of the ledger, a buy or a sell decided on
\* bar T, is priced at the opening price the contract has on the row's date,
\* bar T+1.
C7_OptionFillsAtOpen ==
    \A k \in 1..Len(ledger) :
        IsOptionRow(ledger[k]) =>
            \E r \in options_csv :
                /\ r.date = ledger[k].date
                /\ r.occ = ledger[k].asset
                /\ ledger[k].price = r.open

(***************************************************************************)
(*                  Claims about the rules of Backtester.run               *)
(***************************************************************************)
\* The loop of run() is about to process bar loop_i.
InBar == pc = "loop" /\ loop_i <= RunLen - 1

\* Bar loop_i as run() sees it: its row of self.df, its date, the fill date and
\* open of the next bar, and the price window with the bar's close appended.
BarIdx == DayIdx(loop_i)
BarDate == df[BarIdx].date
NextDate == df[DayIdx(loop_i + 1)].date
BarWindow == PushWindow(price_window, df[BarIdx].close)

BarRising == LastAll(Moves(BarWindow), CONSECUTIVE_PERIODS, 1)
BarFalling == LastAll(Moves(BarWindow), CONSECUTIVE_PERIODS, -1)
RisingFires == InBar /\ BarRising /\ (BelowMinusSd(BarIdx) \/ SectorTrend(BarIdx) = 1)
FallingFires == InBar /\ BarFalling /\ (AbovePlusSd(BarIdx) \/ SectorTrend(BarIdx) = -1)
ReversalFires == InBar /\ Reversed(Moves(BarWindow))

\* The right a held identifier was written with.
IsCallOcc(occ) == occ[Len(symbol) + 7] = "C"
IsPutOcc(occ) == occ[Len(symbol) + 7] = "P"

\* The legs held before the bar that a close loop for the right ch sells on the
\* next bar's date: those of that right ("": any) with a price > 0 on that date.
Closable(it, ch) ==
    /\ ch = "" \/ (ch = "C" /\ IsCallOcc(it.occ)) \/ (ch = "P" /\ IsPutOcc(it.occ))
    /\ OrZero(PriceOcc(it.occ, NextDate)) > 0
Proceeds(ch) ==
    SumSeq([k \in 1..Len(pos.options) |->
        IF Closable(pos.options[k], ch)
        THEN pos.options[k].qty * PriceOcc(pos.options[k].occ, NextDate) * OPTION_MULTIPLIER
        ELSE 0])
Kept(ch) == SelectSeq(pos.options, LAMBDA it : ~Closable(it, ch))

\* C12: on a bar where the falling or the rising rule fires and pick_occ finds
\* no contract for its leg, no option buy is recorded; cash and holdings change
\* only by the rule's other actions: the opposite legs are sold, and the rising
\* rule still buys stock with its fraction of the cash.
C12_LiquidityRejectSkipsLeg ==
    [][ /\ (FallingFires /\ PickOcc(BarDate, df[BarIdx].close * TICKS, PUT) = NoOcc) =>
              /\ \A k \in NewRows : ~(IsOptionRow(ledger'[k]) /\ ledger'[k].side = BUY)
              /\ pos'.options = Kept("C")
              /\ cash' = cash + Proceeds("C")
              /\ pos'.qty_stock = pos.qty_stock
        /\ (RisingFires /\ PickOcc(BarDate, df[BarIdx].close * TICKS, CALL) = NoOcc) =>
              /\ \A k \in NewRows : ~(IsOptionRow(ledger'[k]) /\ ledger'[k].side = BUY)
              /\ pos'.options = Kept("P")
              /\ cash' = (cash + Proceeds("P"))
                           - ((cash + Proceeds("P")) * CASH_INVEST_STOCK_PCT) \div 100
              /\ (cash + Proceeds("P")) * CASH_INVEST_STOCK_PCT >= 100 =>
                    \E k \in NewRows :
                        /\ IsStockRow(ledger'[k]) /\ ledger'[k].side = BUY
                        /\ ledger'[k].date = NextDate ]_vars

\* The bar just processed: its row, and the rule that fired on it.
PrevIdx == DayIdx(loop_i - 1)
PrevFalling ==
    /\ LastAll(Moves(price_window), CONSECUTIVE_PERIODS, -1)
    /\ AbovePlusSd(PrevIdx) \/ SectorTrend(PrevIdx) = -1

\* C12 witness: the falling rule has just run on a bar for which pick_occ finds
\* no PUT, and has sold a held CALL on the next bar's date without buying a leg.
C12_Witness ==
    /\ pc = "loop" /\ loop_i >= 2 /\ loop_i <= RunLen
    /\ PrevFalling
    /\ PickOcc(df[PrevIdx].date, df[PrevIdx].close * TICKS, PUT) = NoOcc
    /\ \E k \in 1..Len(ledger) :
          /\ IsOptionRow(ledger[k]) /\ ledger[k].side = SELL /\ IsCallOcc(ledger[k].asset)
          /\ ledger[k].date = df[DayIdx(loop_i)].date
    /\ \A k \in 1..Len(ledger) :
          ledger[k].date = df[DayIdx(loop_i)].date => ledger[k].side = SELL

\* C13 (as claimed): on a bar at which fewer than sma_len prices have been
\* loaded, rising, falling, aboveBand and belowBand are all false, and neither
\* the falling nor the rising rule places an order (no stock buy; an option buy
\* only from the decelerating rule).
C13_InsufficientDataNeutral ==
    [][ (InBar /\ BarIdx < sma_len) =>
            /\ ~BarRising /\ ~BarFalling
            /\ ~AbovePlusSd(BarIdx) /\ ~BelowMinusSd(BarIdx)
            /\ \A k \in NewRows : ~(IsStockRow(ledger'[k]) /\ ledger'[k].side = BUY)
            /\ ~DecMom(BarWindow) =>
                  \A k \in NewRows : ~(IsOptionRow(ledger'[k]) /\ ledger'[k].side = BUY) ]_vars

\* C14 (as claimed): after a bar on which the falling rule fires, no CALL leg
\* is held and no stock is held.
C14_FallingRule ==
    [][ FallingFires =>
            /\ \A k \in 1..Len(pos'.options) : ~IsCallOcc(pos'.options[k].occ)
            /\ pos'.qty_stock = 0 ]_vars

\* C16 (as claimed): after a bar on which the reversal rule fires, no option
\* contract is held and the stock quantity is half of what it was (to the
\* resolution of the fixed point: the sold dollars are whole).
C16_ReversalRule ==
    [][ ReversalFires =>
            /\ pos'.options = <<>>
            /\ Abs(2 * pos'.qty_stock - pos.qty_stock)
                  <= 2 * (QTY_SCALE \div OpenNext(loop_i)) + 2 ]_vars

(***************************************************************************)
(*              Claims about the run, its equity and its ledger            *)
(***************************************************************************)
\* C18 (as claimed): run() appends one equity point per bar of [start, end], in
\* date order and without touching earlier points, and always terminates after
\* the last bar with one point for every bar.
C18_RunLifecycle ==
    /\ [][ /\ Len(equity_series') >= Len(equity_series)
           /\ SubSeq(equity_series', 1, Len(equity_series)) = equity_series ]_vars
    /\ [](\A k \in 1..Len(equity_series) : equity_series[k][1] = df[DayIdx(k)].date)
    /\ <>(pc = "done" /\ Len(equity_series) = RunLen)

\* C19 (as claimed): the equity point of bar T is the value, at T's marks, of
\* the cash and positions held before the fills decided on T (dated T+1).
C19_EquityFromFillsUpToT ==
    [][ InBar =>
            equity_series'[Len(equity_series')] = <<BarDate, MtmEquity(Book, BarDate, BarIdx).eq>> ]_vars

\* The multiplier of a ledger row: 1 for stock (quantities in 1/QTY_SCALE
\* share), 100 for options.
RowValue(t) ==
    IF IsStockRow(t) THEN (t.qty * t.price) \div QTY_SCALE
    ELSE t.qty * t.price * OPTION_MULTIPLIER

\* C20 (as claimed): every ledger row's notional is quantity x price x
\* multiplier, the amount by which the fill changed cash.
C20_LedgerNotional ==
    \A k \in 1..Len(ledger) : ledger[k].notional = RowValue(ledger[k])

(***************************************************************************)
(*    Claims about the live engine's orders (C11, C15, C17, C21, C24, C28) *)
(***************************************************************************)
\* The orders submitted by the step.
NewOrders == (Len(orders) + 1)..Len(orders')

IsOptionBuy(o) == o.kind = "option" /\ o.side = BUY
IsEntry(o) == o.side = BUY

\* The right and the underlying an identifier was written with.
OccRight(occ) == occ[Len(occ) - 8]
OccUnderlying(occ) == SubSeq(occ, 1, Len(occ) - 15)

\* C11 (as claimed): every option buy the live engine submits is for
\* max(1, floor(dollars / (price x 100))) contracts at a price > 0, and none is
\* submitted whose notional, contracts x price x 100, exceeds the cash
\* available when it is placed.
C11_OptionOrderSizing ==
    \A k \in 1..Len(orders) :
        IsOptionBuy(orders[k]) =>
            /\ orders[k].px > 0
            /\ orders[k].qty = Max(1, orders[k].notional \div (orders[k].px * OPTION_MULTIPLIER))
            /\ orders[k].qty * orders[k].px * OPTION_MULTIPLIER <= orders[k].avail

\* C15 (as claimed): when the live rising rule runs (its stock buy is noted
\* rule4_stock_buy), the legs it closed before are PUT legs of the instrument,
\* its CALL leg is sized from the cash at that moment, and its stock buy from
\* the cash remaining after the option leg.
C15_RisingRule ==
    [][ \A k \in NewOrders :
            orders'[k].note = "rule4_stock_buy" =>
                /\ \A j \in NewOrders :
                      (j < k /\ orders'[j].note = "close_opt") =>
                          /\ OccRight(orders'[j].occ) = "P"
                          /\ OccUnderlying(orders'[j].occ) = orders'[k].sym
                /\ \A j \in NewOrders :
                      (j < k /\ orders'[j].note = "call_leg") =>
                          orders'[j].notional
                              = (orders'[j].avail * CASH_INVEST_OPTION_PCT) \div 100
                /\ orders'[k].notional
                      = (orders'[k].avail * CASH_INVEST_STOCK_PCT) \div 100 ]_vars

\* C17 (as claimed): every entry order is submitted with cash >= MIN_CASH_USD,
\* a last price >= MIN_PRICE_USD, and fewer than MAX_OPEN_POSITIONS open
\* positions, those opened earlier in the cycle included.
C17_EntryFloors ==
    \A k \in 1..Len(orders) :
        IsEntry(orders[k]) =>
            /\ orders[k].avail >= MIN_CASH_USD
            /\ orders[k].kind = "stock" => orders[k].px >= MIN_PRICE_USD
            /\ orders[k].open < MAX_OPEN_POSITIONS

\* The dollars an entry order commits: contracts x price x 100 for an option
\* buy, the notional of a stock buy.
EntryNotional(o) ==
    IF o.kind = "option" THEN o.qty * o.px * OPTION_MULTIPLIER ELSE o.notional

\* The summed notional of the entry orders of the current cycle.
CycleEntryNotional ==
    SumSeq([k \in 1..Len(orders) |->
        IF IsEntry(orders[k]) /\ orders[k].cycle = cyc.n THEN EntryNotional(orders[k]) ELSE 0])

\* C21 (as claimed): the entry orders submitted in one polling cycle never sum
\* to more than the cash read at the start of that cycle.
C21_CycleCashSizing == CycleEntryNotional <= cyc.cash

\* The live poll of the step appended a price to the window of symbol i and
\* reached evaluate_and_trade with decelerating momentum, and neither the
\* falling nor the rising rule of lines 516-527 ran before.
LiveDecelOnly(i) ==
    /\ lpc = "syms" /\ cyc.i = i
    /\ daily.closes # <<>>
    /\ price_windows'[i] # price_windows[i]
    /\ DecMom(price_windows'[i])
    /\ ~(LiveFalling(price_windows'[i])
           /\ (above_sma_1sd(price_windows'[i][Len(price_windows'[i])], daily.closes)
                  \/ daily.trend = -1))
    /\ ~(LiveRising(price_windows'[i])
           /\ (below_sma_1sd(price_windows'[i][Len(price_windows'[i])], daily.closes)
                  \/ daily.trend = 1))

\* C24 (as claimed): on a poll with decelerating momentum the live engine opens
\* at most one option leg, a CALL after an up move and a PUT after a down move
\* and none after a flat move, sized with half of CASH_INVEST_OPTION_PCT of the
\* cash (the cash of the cycle or the cash at the order).
C24_DeceleratingRule ==
    [][ \A i \in 1..Len(LiveSyms) :
            LiveDecelOnly(i) =>
                /\ Cardinality({k \in NewOrders : IsOptionBuy(orders'[k])}) <= 1
                /\ \A k \in NewOrders :
                      IsOptionBuy(orders'[k]) =>
                          /\ LastMove(Moves(price_windows'[i])) # 0
                          /\ OccRight(orders'[k].occ)
                                = (IF LastMove(Moves(price_windows'[i])) > 0 THEN "C" ELSE "P")
                          /\ orders'[k].notional
                                \in {(cyc.cash * CASH_INVEST_OPTION_PCT) \div 200,
                                     (orders'[k].avail * CASH_INVEST_OPTION_PCT) \div 200} ]_vars

\* C28 (as claimed): the close requests of close_all_options_for(symbol) go to
\* option positions whose underlying is symbol and to no other, and when it
\* closes one position of that underlying it closes every one the account held.
C28_CloseOnlyUnderlying ==
    [][ \A k \in NewOrders :
            orders'[k].note = "close_opt" =>
                /\ OccUnderlying(orders'[k].occ) = orders'[k].sym
                /\ \A j \in 1..Len(acct.options) :
                      OccUnderlying(acct.options[j].occ) = orders'[k].sym =>
                          \E c \in NewOrders : /\ orders'[c].note = "close_opt"
                                               /\ orders'[c].occ = acct.options[j].occ ]_vars

\* C29 (as claimed): a cycle of the long-only engine in which a broker call
\* fails ends with the clients re-created and the loop still running, the
\* price window as it was; main() returns only when running is false, and no
\* cycle starts after that.
C29_LoopResilience ==
    [][ /\ (lo_cyc'.n # lo_cyc.n /\ lo_cyc'.failed) =>
              /\ clients' = clients + 1
              /\ window' = window
              /\ lo_pc' = "loop"
        /\ (lo_pc = "loop" /\ lo_pc' = "stopped") => ~running
        /\ lo_pc = "stopped" => lo_cyc' = lo_cyc ]_vars

(***************************************************************************)
(*      Claims about the two LIFO accountants (C26) and about calls of     *)
(*      calculate_lifo_pnl leaving their input alone (C27)                 *)
(***************************************************************************)
\* The fills followed by a sell of q units.
ThenSell(tx, q) == Append(tx, Fill("sell", q, 10, Len(tx) + 1))

\* The cost basis calculate_lifo_pnl charges to the last sell of tx.
ChargedToLastSell(tx) ==
    LET costs == CalculateLifoPnl(tx, current_price).locals.sell_cost_basis
    IN  costs[Len(costs)]

\* C26 (as claimed): for a fill history without over-selling and a sell of q
\* units, q not above the open quantity, get_lifo_cost_basis(symbol, q) equals
\* the cost basis calculate_lifo_pnl charges to that sell, which is the cost of
\* the q most recently bought units still open.
C26_AccountantsAgree ==
    (db_cost # None /\ lifo_calls = 0 /\ NoOverSell(transactions)
        /\ db_cost.quantity <= SideQty(transactions, "buy") - SideQty(transactions, "sell"))
    => /\ db_cost.cost_basis = ChargedToLastSell(ThenSell(transactions, db_cost.quantity))
       /\ LET costs == Ref(ThenSell(transactions, db_cost.quantity)).costs
          IN  db_cost.cost_basis = costs[Len(costs)]

\* C27 (as claimed): a call of calculate_lifo_pnl leaves the quantity and the
\* price of every transaction as they were, and a second call with the same
\* transactions and mark price returns what the first returned.
C27_ReadOnlyProjection ==
    Returned =>
        /\ \A i \in 1..Len(lifo_given) :
              /\ transactions[i].quantity = lifo_given[i].quantity
              /\ transactions[i].price = lifo_given[i].price
        /\ CalculateLifoPnl(transactions, current_price).ret = lifo_ret

(***************************************************************************)
(*        Claims about the price window and the trend flags (C25, C30)     *)
(***************************************************************************)
\* The prices among the observations, in arrival order.
Arrived == SelectSeq(seen, LAMBDA px : px # 0)

\* The last min(Len(s), n) elements of s.
MostRecent(s, n) == SubSeq(s, Len(s) - Min(Len(s), n) + 1, Len(s))

\* The last k deltas of w exist and are all positive (sign = 1) or all
\* negative (sign = -1).
LastDeltas(w, k, sign) ==
    /\ Len(w) - 1 >= k
    /\ \A j \in 0..(k - 1) : sign * (w[Len(w) - j] - w[Len(w) - j - 1]) > 0

\* C25 (as claimed): in both engines rising holds exactly when the window has
\* at least K deltas and the last K are all strictly positive, falling exactly
\* when they are all strictly negative; a zero delta among the last K makes
\* both false, and the two flags are never both true, for K = 1, 2, 3.
C25_TrendFlags ==
    wpc = "feed" =>
        \A e \in {"bt", "live"} :
            /\ flags[e].rising = LastDeltas(IF e = "bt" THEN bt_win ELSE live_win, consec, 1)
            /\ flags[e].falling = LastDeltas(IF e = "bt" THEN bt_win ELSE live_win, consec, -1)
            /\ ~(flags[e].rising /\ flags[e].falling)

\* Both engines report rising for K = 3 after observations that include a
\* poll without a price.
C25_Witness ==
    /\ wpc = "feed" /\ consec = 3
    /\ flags.bt.rising /\ flags.live.rising
    /\ \E k \in 1..Len(seen) : seen[k] = 0

C22_OneLoopThread ==
    Cardinality({t \in 1..Len(threads) : threads[t].at = "cycle"}) <= 1

(***************************************************************************)
(*             Claims about the long-only engine (C23, C29)                *)
(***************************************************************************)
\* C23 (as claimed): in every cycle outside the end-of-day window that meets no
\* failing call, a held symbol whose last price has reached the take-profit or
\* the stop-loss level of its base has a close order submitted in that cycle,
\* whatever the cash and the number of open positions.
C23_ExitsNotGated ==
    [][ (/\ lo_cyc'.n = lo_cyc.n + 1
         /\ ~lo_cyc'.eod /\ ~lo_cyc'.failed
         /\ lo_acct.qty > 0
         /\ lo_cyc'.px > 0
         /\ TakeProfit(window, lo_cyc'.px) \/ StopLoss(window, lo_cyc'.px))
        => \E k \in (Len(lo_orders) + 1)..Len(lo_orders') :
              lo_orders'[k].side = SELL /\ lo_orders'[k].symbol = LongSym ]_vars

=============================================================================
